---- MODULE Spec2Model ----
(***************************************************************************)
(* Model of kash-money: the per-user invoice-number allocator              *)
(* (src/utils/billingStorage.ts), the settings screen that edits the       *)
(* counter (src/pages/BillingSettings.tsx), the plan-limit gate            *)
(* (billingStorage.ts, limits.ts, superAdminStorage.ts, storage.ts) and    *)
(* the screens that call them (Admin.tsx, Budgets.tsx).                    *)
(***************************************************************************)
EXTENDS Integers, Sequences, FiniteSets, TLC

(***************************************************************************)
(* Bounds of the model.                                                    *)
(***************************************************************************)
\* number of getNextInvoiceNumber calls that may be started in one behaviour
MaxAllocs == 3
\* number of wall-clock ticks in one behaviour
MaxTicks == 1

(***************************************************************************)
(* Wall clock.  An instant is an integer; every calendar month holds       *)
(* TicksPerMonth instants, the first and the last being the month's edges. *)
(***************************************************************************)
TicksPerMonth == 2
MonthsPerYear == 12

\* new Date(y, m, 1): the first instant of month m of year y.  As in JS a
\* month index of 12 carries into the next year.
MkDate(y, m) == (y * MonthsPerYear + m) * TicksPerMonth
getFullYear(t) == t \div (MonthsPerYear * TicksPerMonth)
getMonth(t) == (t \div TicksPerMonth) % MonthsPerYear

\* the behaviour starts at the last instant of December of StartYear
StartYear == 2025
StartInstant == MkDate(StartYear, 11) + (TicksPerMonth - 1)

(***************************************************************************)
(* Text.  A string is a sequence of one-character strings.                 *)
(***************************************************************************)
DigitChar == <<"0", "1", "2", "3", "4", "5", "6", "7", "8", "9">>

RECURSIVE toString(_)
toString(n) ==
    IF n < 10 THEN <<DigitChar[n + 1]>>
    ELSE toString(n \div 10) \o <<DigitChar[(n % 10) + 1]>>

padStart(s, width, ch) ==
    IF Len(s) >= width THEN s
    ELSE [i \in 1..(width - Len(s)) |-> ch] \o s

\* variant: the sequence padded to width 3
paddedCount_Width3(count) == padStart(toString(count), 3, "0")

paddedCount(count) == padStart(toString(count), 4, "0")

invoiceNumber(year, count) ==
    <<"I", "N", "V", "-">> \o toString(year) \o <<"-">> \o paddedCount(count)

(***************************************************************************)
(* The counters/invoiceCounter document of the user.                       *)
(***************************************************************************)
NoDoc == [exists |-> FALSE, year |-> 0, count |-> 0]
CounterDoc(y, c) == [exists |-> TRUE, year |-> y, count |-> c]

\* counts found in the counter document at the start
InitCounts == {2, 9999}
\* values typed into the "Set Starting Number" field (parseInt(...) || 0)
CountInputs == {-1, 0, 9998}

Procs == {"a", "b"}

\* history record: who wrote the counter last (by); for a transaction, the
\* document it had read (pre), who had written that document (preBy) and
\* the caller's currentYear (cy)
NoWrite == [by |-> "none", pre |-> NoDoc, preBy |-> "none", cy |-> 0]

\* history record: the storage operation the last step performed (none for
\* a step that is no storage operation), its outcome, and whether its
\* limits read and its write reached the backend (io)
\* no user signed in; what an operation returned or threw
NoUser == "none"
NoResult == [op |-> "none", kind |-> "none", value |-> "none"]
Returned(op, value) == [op |-> op, kind |-> "return", value |-> value]
Thrown(op, error) == [op |-> op, kind |-> "throw", value |-> error]

\* BudgetView before a budget is loaded and before totals are computed
NoBudget == [startingAmount |-> 0, lineItems |-> <<>>, loaded |-> FALSE]
NoTotals == [computed |-> FALSE, unmarkedTotal |-> 0, finalTotal |-> 0]

\* no administrative call was made
NoRequest == [auth |-> FALSE, email |-> "", op |-> "none"]
\* no storage function has been called yet
NoCall == [op |-> "none", arg |-> 0]
NoOp == [op |-> "none", outcome |-> "none", io |-> TRUE]
Op(op, outcome, io) == [op |-> op, outcome |-> outcome, io |-> io]

VARIABLES
    now,             \* wall clock
    counterDoc,      \* users/<uid>/counters/invoiceCounter
    pc,              \* position of each getNextInvoiceNumber caller
    currentYear,     \* the caller's const currentYear
    txSnap,          \* the document the caller's transaction has read
    txStale,         \* the document was written after the transaction read it
    allocs,          \* invoice numbers returned so far, in commit order
    invoiceCounter,  \* BillingSettings state: the counter being edited
    started,         \* history: calls begun
    pristine,        \* history: no document at the start, none saved since
    lastWrite,       \* history: the last write of counterDoc
    clients,         \* users/<uid>/clients: [id, name, email, hourlyRate]
    invoices,        \* users/<uid>/invoices: [id, dateCreated]
    budgets,         \* users/<uid>/budgets: [id, dateCreated, startingAmount,
                     \* lineItems]
    limitsDoc,       \* users/<uid>/settings/limits
    budgetsState,    \* Budgets page state: budgets
    budgetLimit,     \* Budgets page state: budgetLimit
    invoicesThisMonth,  \* Invoices page state: invoicesThisMonth
    invoiceLimit,    \* Invoices page state: invoiceLimit
    lastOp,          \* history: the last operation behind the gate and its outcome
    recurringExpenses,  \* users/<uid>/recurringExpenses
    expenses,        \* RecurringExpenses page state: expenses
    newlyCreatedId,  \* RecurringExpenses page state: newlyCreatedId
    insertion,       \* history: the stored template ids, oldest first
    currentUser,     \* auth.currentUser?.uid
    db,              \* the documents of every user, by path
    access,          \* history: the paths the step's operation read or wrote
    result,          \* history: the step's operation and what it returned
    editingClient,   \* Clients page state: editingClient
    Clients_newlyCreatedId, \* Clients page state: newlyCreatedId
    BudgetView_budget,  \* BudgetView state: budget
    BudgetView_totals,  \* BudgetView: what calculateTotals returned
    InvoiceEditor_id,      \* InvoiceEditor: the route's id, or not mounted
    InvoiceEditor_invoice, \* InvoiceEditor state: invoice
    request, \* history: the caller of the step's administrative call
    Invoices_invoices, \* Invoices page: the list the page holds
    emailModalData, \* Invoices page: what the open email modal was given
    additionalCcEntries, \* email modal: the cc fields
    invoiceCcEmails, \* stored client: its invoiceCcEmails
    ccRecipients, \* history: the cc list of the last handleSend
    Cc, \* history: the Cc of the last mail handed to the provider
    BudgetView_id, \* BudgetView: the id of the route, NotMounted off the view
    inflight, \* BudgetView: handlers waiting for their updateBudget
    appliedBudget, \* history: the loaded budget with every completed operation applied
    handlersBegun, \* history: handlers of the budget view begun
    lastCall, \* history: the storage function last called, with its argument
    pageQuery, \* the list being paged: collection, pageSize, status filter
    pageResult, \* what the last getClientsPage / getInvoicesPage returned
    visited, \* history: the ids of the items of the pages read so far
    pagesRead  \* history: the pages read so far

vars == <<now, counterDoc, pc, currentYear, txSnap, txStale, allocs,
          invoiceCounter, started, pristine, lastWrite,
          clients, invoices, budgets, limitsDoc, budgetsState, budgetLimit,
          invoicesThisMonth, invoiceLimit, lastOp,
          recurringExpenses, expenses, newlyCreatedId, insertion,
          currentUser, db, access, result,
          editingClient, Clients_newlyCreatedId,
          BudgetView_budget, BudgetView_totals,
          InvoiceEditor_id, InvoiceEditor_invoice,
          request,
          Invoices_invoices,
          emailModalData,
          additionalCcEntries,
          invoiceCcEmails,
          ccRecipients,
          Cc,
          BudgetView_id,
          inflight,
          appliedBudget,
          handlersBegun,
          lastCall,
          pageQuery,
          pageResult,
          visited,
          pagesRead>>

storeVars == <<clients, invoices, budgets, limitsDoc>>
pageVars == <<budgetsState, budgetLimit, invoicesThisMonth, invoiceLimit>>
templateVars == <<recurringExpenses, expenses, newlyCreatedId, insertion>>
authVars == <<currentUser, db, access, result>>
clientPageVars == <<editingClient, Clients_newlyCreatedId>>
budgetViewVars == <<BudgetView_budget, BudgetView_totals, BudgetView_id,
                    inflight, appliedBudget, handlersBegun>>
editorVars == <<InvoiceEditor_id, InvoiceEditor_invoice>>
\* the variables of the callable functions and of the later screens
adminVars == <<request>>
mailVars == <<Invoices_invoices, emailModalData, additionalCcEntries,
              invoiceCcEmails, ccRecipients, Cc>>
writeVars == <<lastCall>>
pagingVars == <<pageQuery, pageResult, visited, pagesRead>>
serviceVars == <<adminVars, mailVars, writeVars, pagingVars>>
viewVars == <<templateVars, authVars, clientPageVars, budgetViewVars,
              editorVars, serviceVars>>
\* what the handlers of one screen leave alone of the other screens
othersOfTemplates == <<authVars, clientPageVars, budgetViewVars, editorVars,
    serviceVars>>
othersOfAuth == <<templateVars, clientPageVars, budgetViewVars, editorVars,
    serviceVars>>
othersOfClients == <<templateVars, authVars, budgetViewVars, editorVars,
    serviceVars>>
othersOfBudgetView == <<templateVars, authVars, clientPageVars, editorVars,
    serviceVars>>
othersOfEditor == <<templateVars, authVars, clientPageVars, budgetViewVars,
    serviceVars>>
gateVars == <<storeVars, pageVars, lastOp, viewVars>>

allocVars == <<pc, currentYear, txSnap, txStale, allocs, started>>
settingsVars == <<invoiceCounter>>

\* a write of the counter document invalidates every transaction that has
\* read it and not yet committed
Invalidate(except) ==
    [q \in Procs |-> IF q # except /\ pc[q] = "read" THEN TRUE ELSE txStale[q]]

(***************************************************************************)
(* getNextInvoiceNumber                                                    *)
(***************************************************************************)
\* const userId = getUserId(); const currentYear = new Date().getFullYear()
getNextInvoiceNumber_begin(p) ==
    /\ pc[p] = "idle"
    /\ started < MaxAllocs
    /\ pc' = [pc EXCEPT ![p] = "started"]
    /\ currentYear' = [currentYear EXCEPT ![p] = getFullYear(now)]
    /\ started' = started + 1
    /\ UNCHANGED <<now, counterDoc, txSnap, txStale, allocs, settingsVars,
                   pristine, lastWrite>>
    /\ UNCHANGED gateVars

\* const counterDoc = await transaction.get(counterRef)
transaction_get(p) ==
    /\ pc[p] = "started"
    /\ pc' = [pc EXCEPT ![p] = "read"]
    /\ txSnap' = [txSnap EXCEPT ![p] = counterDoc]
    /\ txStale' = [txStale EXCEPT ![p] = FALSE]
    /\ UNCHANGED <<now, counterDoc, currentYear, allocs, settingsVars,
                   started, pristine, lastWrite>>
    /\ UNCHANGED gateVars

\* variant: a new year keeps counting instead of restarting at 1
nextCounter_NoReset(snap, cy) ==
    IF ~snap.exists THEN CounterDoc(cy, 1)
    ELSE CounterDoc(cy, snap.count + 1)

\* variant: the same-year branch stores the count it read
nextCounter_NoIncrement(snap, cy) ==
    IF ~snap.exists THEN CounterDoc(cy, 1)
    ELSE IF snap.year # cy THEN CounterDoc(cy, 1)
    ELSE CounterDoc(snap.year, snap.count)

\* the body of the update function: the counter it writes
nextCounter(snap, cy) ==
    IF ~snap.exists THEN CounterDoc(cy, 1)
    ELSE IF snap.year # cy THEN CounterDoc(cy, 1)
    ELSE CounterDoc(snap.year, snap.count + 1)

\* variant: a plain read followed by a write, with no isolation
canCommit_NoIsolation(p) == TRUE

\* runTransaction commits only if the document is as the transaction read it
canCommit(p) == ~txStale[p]

transaction_commit(p) ==
    /\ pc[p] = "read"
    /\ canCommit(p)
    /\ LET next == nextCounter(txSnap[p], currentYear[p]) IN
        /\ counterDoc' = next
        /\ allocs' = Append(allocs, invoiceNumber(next.year, next.count))
    /\ pc' = [pc EXCEPT ![p] = "idle"]
    /\ txStale' = Invalidate(p)
    /\ txSnap' = [txSnap EXCEPT ![p] = NoDoc]
    /\ lastWrite' = [by |-> "transaction", pre |-> txSnap[p],
                     preBy |-> lastWrite.by, cy |-> currentYear[p]]
    /\ UNCHANGED <<now, currentYear, settingsVars, started, pristine>>
    /\ UNCHANGED gateVars

\* the commit is refused: runTransaction runs the update function again
transaction_retry(p) ==
    /\ pc[p] = "read"
    /\ ~canCommit(p)
    /\ pc' = [pc EXCEPT ![p] = "started"]
    /\ txStale' = [txStale EXCEPT ![p] = FALSE]
    /\ txSnap' = [txSnap EXCEPT ![p] = NoDoc]
    /\ UNCHANGED <<now, counterDoc, currentYear, allocs, settingsVars,
                   started, pristine, lastWrite>>
    /\ UNCHANGED gateVars

(***************************************************************************)
(* BillingSettings                                                         *)
(***************************************************************************)
\* getInvoiceCounter: the stored counter, or null when absent or on error
getInvoiceCounter(ok) == IF ok THEN counterDoc ELSE NoDoc

\* variant: loading the screen stores the default counter it shows
loadSettings_Persist ==
    /\ \E ok \in BOOLEAN :
        LET counter == getInvoiceCounter(ok) IN
        invoiceCounter' = IF counter.exists THEN counter
                          ELSE CounterDoc(getFullYear(now), 0)
    /\ invoiceCounter' # invoiceCounter
    /\ counterDoc' = invoiceCounter'
    /\ UNCHANGED <<now, allocVars, pristine, lastWrite>>
    /\ UNCHANGED gateVars

loadSettings ==
    /\ \E ok \in BOOLEAN :
        LET counter == getInvoiceCounter(ok) IN
        invoiceCounter' = IF counter.exists THEN counter
                          ELSE CounterDoc(getFullYear(now), 0)
    /\ invoiceCounter' # invoiceCounter
    /\ UNCHANGED <<now, counterDoc, allocVars, pristine, lastWrite>>
    /\ UNCHANGED gateVars

\* onChange of the "Set Starting Number" input
setInvoiceCounter(c) ==
    /\ invoiceCounter.exists
    /\ invoiceCounter.count # c
    /\ invoiceCounter' = [invoiceCounter EXCEPT !.count = c]
    /\ UNCHANGED <<now, counterDoc, allocVars, pristine, lastWrite>>
    /\ UNCHANGED gateVars

\* setDoc(counterRef, { year, count })
updateInvoiceCounter(year, count) ==
    /\ counterDoc' = CounterDoc(year, count)
    /\ txStale' = Invalidate("")
    /\ lastWrite' = [NoWrite EXCEPT !.by = "settings"]
    /\ pristine' = FALSE

\* if (!invoiceCounter) return; if (invoiceCounter.count < 0) return;
handleSaveCounter ==
    /\ invoiceCounter.exists
    /\ ~(invoiceCounter.count < 0)
    /\ updateInvoiceCounter(invoiceCounter.year, invoiceCounter.count)
    /\ UNCHANGED <<now, pc, currentYear, txSnap, allocs, started,
                   invoiceCounter>>
    /\ UNCHANGED gateVars

(***************************************************************************)
(* Wall clock                                                              *)
(***************************************************************************)
Tick ==
    /\ now < StartInstant + MaxTicks
    /\ now' = now + 1
    /\ lastOp' = NoOp
    /\ UNCHANGED <<counterDoc, allocVars, settingsVars, viewVars, pristine, lastWrite,
                   storeVars, pageVars>>

(***************************************************************************)
(* Plan limits                                                             *)
(***************************************************************************)
\* a field or document that is absent (undefined / null)
Null == -1
\* cursor = null
NoCursor == [id |-> Null]
\* no list is being paged
NoQuery == [collection |-> "none", pageSize |-> 0, status |-> "all"]
\* no page has been read yet
NoPage == [items |-> <<>>, hasMore |-> FALSE, nextCursor |-> NoCursor,
           reads |-> 0]
\* an optional field that is absent
Undefined == "undefined"
\* the editor before a route mounts it; a route without an id has id Null
NotMounted == 0 - 2
\* no invoice: no id, no client chosen (''), no dateSent, no datePaid
\* dateDue is kept as "30 days and extra milliseconds after the instant after"
NoInvoice == [id |-> Null, dateCreated |-> 0,
              dateDue |-> [after |-> 0, extra |-> 0], status |-> "draft",
              clientId |-> Null, lineItems |-> <<>>, total |-> 0,
              dateSent |-> Null, datePaid |-> Null]
\* the email modal is closed
NoModal == [invoice |-> NoInvoice, client |-> [invoiceCcEmails |-> <<>>],
            company |-> [email |-> ""]]

\* editingClient is null
NoClient == [id |-> Null, name |-> "", email |-> "", hourlyRate |-> 0]

DEFAULT_LIMITS_BY_PLAN ==
    [Free  |-> [plan |-> "Free", clients |-> 1, invoicesPerMonth |-> 2,
                budgetsPerMonth |-> 1, recurringTemplates |-> 5],
     Basic |-> [plan |-> "Basic", clients |-> 5, invoicesPerMonth |-> 10,
                budgetsPerMonth |-> 5, recurringTemplates |-> 25]]

getDefaultLimitsForPlan(plan) == DEFAULT_LIMITS_BY_PLAN[plan]

NoLimits == [exists |-> FALSE, plan |-> "", clients |-> Null,
             invoicesPerMonth |-> Null, budgetsPerMonth |-> Null,
             recurringTemplates |-> Null]

\* the override documents an administrator may have stored
LimitsDocs ==
    {NoLimits,
     [exists |-> TRUE, plan |-> "Free", clients |-> 2,
      invoicesPerMonth |-> Null, budgetsPerMonth |-> Null,
      recurringTemplates |-> Null],
     [exists |-> TRUE, plan |-> "", clients |-> Null,
      invoicesPerMonth |-> 1, budgetsPerMonth |-> 2,
      recurringTemplates |-> Null]}

\* the override documents of the template screens
TemplateLimitsDocs ==
    {NoLimits,
     [exists |-> TRUE, plan |-> "Free", clients |-> Null,
      invoicesPerMonth |-> Null, budgetsPerMonth |-> 2,
      recurringTemplates |-> 1]}

\* a ?? b
Coalesce(a, b) == IF a = Null THEN b ELSE a

\* getCurrentUserLimits for a signed-in user whose limits document was read
getCurrentUserLimits ==
    LET plan == IF limitsDoc.exists /\ limitsDoc.plan # ""
                THEN limitsDoc.plan ELSE "Free"
        defaults == getDefaultLimitsForPlan(plan)
    IN  [plan |-> plan,
         clients |-> Coalesce(limitsDoc.clients, defaults.clients),
         invoicesPerMonth |->
             Coalesce(limitsDoc.invoicesPerMonth, defaults.invoicesPerMonth),
         budgetsPerMonth |->
             Coalesce(limitsDoc.budgetsPerMonth, defaults.budgetsPerMonth),
         recurringTemplates |->
             Coalesce(limitsDoc.recurringTemplates,
                      defaults.recurringTemplates)]

\* variant: the first instant of the next month without the carry into the
\* next year
nextMonthStart_NoCarry(t) ==
    MkDate(getFullYear(t), (getMonth(t) + 1) % MonthsPerYear)

monthStart(t) == MkDate(getFullYear(t), getMonth(t))
nextMonthStart(t) == MkDate(getFullYear(t), getMonth(t) + 1)

\* limits.ts: the items created in the calendar month of instant t
countItemsCreatedThisMonth(items, t) ==
    Cardinality({item \in items :
        /\ item.dateCreated >= monthStart(t)
        /\ item.dateCreated < nextMonthStart(t)})

\* billingStorage.ts: the aggregate query, the fallback over all documents,
\* and 0 when both fail
getInvoicesCreatedThisMonthCount(aggregateOk, docsOk) ==
    IF aggregateOk \/ docsOk
    THEN Cardinality({inv \in invoices : inv.dateCreated >= monthStart(now)})
    ELSE 0

(***************************************************************************)
(* Storage operations behind the plan-limit gate.  Every operation is one  *)
(* handler; the flags say whether its reads and its write reach the        *)
(* backend.                                                                *)
(***************************************************************************)
MaxClients == 3
MaxInvoices == 3
MaxBudgets == 2
ClientIds == 1..MaxClients
InvoiceIds == 1..MaxInvoices
BudgetIds == 1..MaxBudgets

\* dateCreated values: the clock's edges of November, December and January
DateInputs == {StartInstant - 2, StartInstant, StartInstant + 1}
\* dates chosen in the invoice editor instead of the date of the mount
EditorDates == {StartInstant - 2}


\* crypto.randomUUID() / addDoc: an id no stored document has
NewId(ids, used) == CHOOSE i \in ids \ used : \A j \in ids \ used : i <= j
IdsOf(items) == {item.id : item \in items}

getClientsCount(ok) == IF ok THEN Cardinality(clients) ELSE 0
getInvoices(ok) == IF ok THEN invoices ELSE {}
getBudgets(ok) == IF ok THEN budgets ELSE {}

\* the outcome of createClient / createInvoice / handleCreateBudget: the
\* limits read throws, the gate throws, or setDoc throws
createOutcome(existingCount, limit, limitsOk, writeOk) ==
    IF ~limitsOk THEN "error"
    ELSE IF existingCount >= limit THEN "planLimit"
    ELSE IF writeOk THEN "ok" ELSE "error"

createClient(client, countOk, limitsOk, writeOk) ==
    LET existingClientsCount == getClientsCount(countOk)
        limits == getCurrentUserLimits
        outcome == createOutcome(existingClientsCount, limits.clients,
                                 limitsOk, writeOk)
    IN  /\ Cardinality(clients) < MaxClients
        /\ clients' = IF outcome = "ok"
                      THEN {c \in clients : c.id # client.id} \cup {client}
                      ELSE clients
        /\ lastOp' = Op("createClient", outcome, limitsOk /\ writeOk)
        /\ UNCHANGED <<now, counterDoc, allocVars, settingsVars,
                       othersOfClients, pristine, lastWrite, invoices,
                       budgets, limitsDoc, pageVars>>

\* Clients page: a new client with a new id and empty fields is stored and
\* then opened in the edit form
handleAddClient ==
    \E countOk, limitsOk, writeOk \in BOOLEAN :
        LET newClient == [id |-> NewId(ClientIds, IdsOf(clients)),
                          name |-> "", email |-> "", hourlyRate |-> 0]
        IN  /\ createClient(newClient, countOk, limitsOk, writeOk)
            /\ IF lastOp'.outcome = "ok"
               THEN /\ editingClient' = newClient
                    /\ Clients_newlyCreatedId' = newClient.id
               ELSE UNCHANGED clientPageVars

deleteClient(id) ==
    /\ \E c \in clients : c.id = id
    /\ clients' = {c \in clients : c.id # id}
    /\ lastOp' = Op("deleteClient", "ok", TRUE)
    /\ UNCHANGED <<now, counterDoc, allocVars, settingsVars, viewVars, pristine,
                   lastWrite, invoices, budgets, limitsDoc, pageVars>>

\* setDoc(invoiceRef, invoiceData): the document of that id is replaced
setInvoice(invoice) ==
    {inv \in invoices : inv.id # invoice.id} \cup {invoice}

\* InvoiceEditor.handleSave of a new invoice: validation, then
\* getNextInvoiceNumber, then createInvoice
handleSave(invoice, clientChosen, lineItemCount, txOk, readOk, limitsOk,
           writeOk) ==
    /\ clientChosen
    /\ lineItemCount # 0
    /\ started < MaxAllocs
    /\ Cardinality(invoices) < MaxInvoices
    /\ invoice.id \notin IdsOf(invoices)
    /\ started' = started + 1
    /\ IF ~txOk
       THEN /\ lastOp' = Op("getNextInvoiceNumber", "error", FALSE)
            /\ UNCHANGED <<counterDoc, allocs, lastWrite, pristine, invoices>>
       ELSE LET next == nextCounter(counterDoc, getFullYear(now))
                existingInvoices == getInvoices(readOk)
                limits == getCurrentUserLimits
                outcome ==
                    createOutcome(
                        countItemsCreatedThisMonth(existingInvoices, now),
                        limits.invoicesPerMonth, limitsOk, writeOk)
            IN  /\ counterDoc' = next
                /\ allocs' = Append(allocs,
                                    invoiceNumber(next.year, next.count))
                /\ lastWrite' = [by |-> "transaction", pre |-> counterDoc,
                                 preBy |-> lastWrite.by,
                                 cy |-> getFullYear(now)]
                /\ UNCHANGED pristine
                /\ invoices' = IF outcome = "ok" THEN setInvoice(invoice)
                               ELSE invoices
                /\ lastOp' = Op("createInvoice", outcome, limitsOk /\ writeOk)
    /\ UNCHANGED <<now, pc, currentYear, txSnap, txStale, settingsVars,
                   othersOfEditor, clients, budgets, limitsDoc, pageVars>>

\* the editor of a new invoice: a new id, the date of the mount or the
\* date the user chose, a client chosen or not, line items or none
InvoiceEditor_handleSave ==
    \E d \in EditorDates \cup {now}, clientChosen \in BOOLEAN,
       lineItemCount \in 0..1, txOk, readOk, limitsOk, writeOk \in BOOLEAN :
        /\ handleSave([id |-> NewId(InvoiceIds, IdsOf(invoices)),
                       dateCreated |-> d],
                      clientChosen, lineItemCount, txOk, readOk, limitsOk,
                      writeOk)
        /\ UNCHANGED editorVars

deleteInvoice(id) ==
    /\ \E inv \in invoices : inv.id = id
    /\ invoices' = {inv \in invoices : inv.id # id}
    /\ lastOp' = Op("deleteInvoice", "ok", TRUE)
    /\ UNCHANGED <<now, counterDoc, allocVars, settingsVars, viewVars, pristine,
                   lastWrite, clients, budgets, limitsDoc, pageVars>>

\* Invoices page: the counts and the limit shown
Invoices_loadData(aggregateOk, docsOk) ==
    /\ invoicesThisMonth' = getInvoicesCreatedThisMonthCount(aggregateOk,
                                                             docsOk)
    /\ invoiceLimit' = getCurrentUserLimits.invoicesPerMonth
    /\ <<invoicesThisMonth', invoiceLimit'>>
           # <<invoicesThisMonth, invoiceLimit>>
    /\ lastOp' = NoOp
    /\ UNCHANGED <<now, counterDoc, allocVars, settingsVars, viewVars, pristine,
                   lastWrite, storeVars, budgetsState, budgetLimit>>

(***************************************************************************)
(* Clients page: the edit form                                             *)
(***************************************************************************)
\* what the user types into the form; the rate field keeps
\* parseFloat(e.target.value) || 0
ClientNames == {"", "Acme"}
ClientEmails == {"", "a@b.co", "acme"}
ClientRates == {0, 0 - 5}

clientFrame == <<now, counterDoc, allocVars, settingsVars, othersOfClients,
                 pristine, lastWrite, invoices, budgets, limitsDoc, pageVars>>

handleEditClient(client) ==
    /\ editingClient = NoClient
    /\ client \in clients
    /\ editingClient' = client
    /\ lastOp' = NoOp
    /\ UNCHANGED <<clients, Clients_newlyCreatedId, clientFrame>>

handleUpdateEditingClient(name, email, hourlyRate) ==
    /\ editingClient # NoClient
    /\ editingClient' = [editingClient EXCEPT !.name = name,
                                              !.email = email,
                                              !.hourlyRate = hourlyRate]
    /\ editingClient' # editingClient
    /\ lastOp' = NoOp
    /\ UNCHANGED <<clients, Clients_newlyCreatedId, clientFrame>>

\* updateDoc(clientRef, clientData); it fails when the document is gone
updateClient(client, writeOk) ==
    IF writeOk /\ \E c \in clients : c.id = client.id
    THEN {c \in clients : c.id # client.id} \cup {client}
    ELSE clients

handleSaveEdit(writeOk) ==
    /\ editingClient # NoClient
    /\ ~(editingClient.name = "" \/ editingClient.email = "")
    /\ ~(editingClient.hourlyRate < 0)
    /\ clients' = updateClient(editingClient, writeOk)
    /\ IF writeOk /\ \E c \in clients : c.id = editingClient.id
       THEN /\ editingClient' = NoClient
            /\ Clients_newlyCreatedId' = Null
       ELSE UNCHANGED clientPageVars
    /\ lastOp' = Op("updateClient", IF writeOk THEN "ok" ELSE "error", writeOk)
    /\ UNCHANGED clientFrame

\* the client that was added and not saved is deleted; the form is closed
Clients_handleCancelEdit(writeOk) ==
    /\ editingClient # NoClient
    /\ IF editingClient.id = Clients_newlyCreatedId
       THEN IF writeOk
            THEN /\ clients' = {c \in clients : c.id # editingClient.id}
                 /\ Clients_newlyCreatedId' = Null
                 /\ editingClient' = NoClient
                 /\ lastOp' = Op("deleteClient", "ok", TRUE)
            ELSE /\ UNCHANGED <<clients, clientPageVars>>
                 /\ lastOp' = Op("deleteClient", "error", FALSE)
       ELSE /\ editingClient' = NoClient
            /\ lastOp' = NoOp
            /\ UNCHANGED <<clients, Clients_newlyCreatedId>>
    /\ UNCHANGED clientFrame

\* the page is left with the form open and mounted again
Clients_mount ==
    /\ editingClient # NoClient
    /\ editingClient' = NoClient
    /\ Clients_newlyCreatedId' = Null
    /\ lastOp' = NoOp
    /\ UNCHANGED <<clients, clientFrame>>

(***************************************************************************)
(* Recurring expense templates: the store and what is read from it         *)
(***************************************************************************)
MaxTemplates == 2
TemplateIds == 1..MaxTemplates

\* larger than every order a template carries
MAX_SAFE_INTEGER == 2147483647

\* snapshot.docs of a collection read without orderBy: by document id
RECURSIVE docs(_)
docs(collection) ==
    IF collection = {} THEN <<>>
    ELSE LET first == CHOOSE e \in collection :
                          \A f \in collection : e.id <= f.id
         IN  <<first>> \o docs(collection \ {first})

orderOf(e) == IF e.order = Null THEN MAX_SAFE_INTEGER ELSE e.order

\* Array.prototype.sort is stable: an element goes behind the elements
\* already placed that do not compare greater
RECURSIVE sort(_)
sort(s) ==
    IF s = <<>> THEN <<>>
    ELSE LET e == s[Len(s)]
             placed == sort(SubSeq(s, 1, Len(s) - 1))
             k == Cardinality({i \in 1..Len(placed) :
                                  orderOf(placed[i]) - orderOf(e) <= 0})
         IN  SubSeq(placed, 1, k) \o <<e>> \o SubSeq(placed, k + 1, Len(placed))

getRecurringExpenses(ok) == IF ok THEN sort(docs(recurringExpenses)) ELSE <<>>

\* a || ''
OrEmpty(a) == IF a = Undefined THEN "" ELSE a

\* variant: the isAutomatic test ahead of the amount test
statusOf_AutomaticFirst(expense) ==
    IF expense.isAutomatic THEN "automatic"
    ELSE IF expense.amount = 0 THEN "complete"
    ELSE "incomplete"

statusOf(expense) ==
    IF expense.amount = 0 THEN "complete"
    ELSE IF expense.isAutomatic THEN "automatic"
    ELSE "incomplete"

\* recurringExpenses.map(expense => ...): the id of a line item is a new
\* random id, written here as its position
lineItemsOf(recurringExpenses_) ==
    [i \in 1..Len(recurringExpenses_) |->
        LET expense == recurringExpenses_[i]
        IN  [id |-> i,
             status |-> statusOf(expense),
             name |-> expense.name,
             amount |-> expense.amount,
             link |-> OrEmpty(expense.link),
             note |-> OrEmpty(expense.note),
             isRecurring |-> TRUE,
             isMarked |-> FALSE]]

\* storage.ts createBudget: addDoc stores the budget under a new document id
createBudget(budget, docId, writeOk) ==
    /\ budgets' = IF writeOk
                  THEN budgets \cup {[id |-> docId,
                                      dateCreated |-> budget.dateCreated,
                                      startingAmount |->
                                          budget.startingAmount,
                                      lineItems |-> budget.lineItems]}
                  ELSE budgets
    /\ lastOp' = Op("createBudget", IF writeOk THEN "ok" ELSE "error", writeOk)

\* Budgets page
loadBudgets(budgetsOk, limitsOk) ==
    /\ limitsOk
    /\ budgetsState' = getBudgets(budgetsOk)
    /\ budgetLimit' = getCurrentUserLimits.budgetsPerMonth
    /\ <<budgetsState', budgetLimit'>> # <<budgetsState, budgetLimit>>
    /\ lastOp' = NoOp
    /\ UNCHANGED <<now, counterDoc, allocVars, settingsVars, viewVars, pristine,
                   lastWrite, storeVars, invoicesThisMonth, invoiceLimit>>

createBudgetDisabled ==
    countItemsCreatedThisMonth(budgetsState, now) >= budgetLimit

\* crypto.randomUUID() of newBudget.id, a text of 36 characters with
\* hyphens; the ids addDoc makes have 20 letters and digits, so no uuid is
\* a document id
BudgetUuids == {101}

\* the page checks its own state, creates the budget dated now and
\* navigates to /budgets/<newBudget.id>; the page's state is that of a new
\* mount afterwards
handleCreateBudget(templatesOk, writeOk) ==
    /\ ~createBudgetDisabled
    /\ Cardinality(budgets) < MaxBudgets
    /\ \E uuid \in BudgetUuids :
        LET newBudget == [id |-> uuid, dateCreated |-> now,
                          startingAmount |-> 0,
                          lineItems |-> lineItemsOf(
                                            getRecurringExpenses(templatesOk))]
        IN  /\ createBudget(newBudget, NewId(BudgetIds, IdsOf(budgets)),
                            writeOk)
            /\ IF writeOk
               THEN /\ budgetsState' = {} /\ budgetLimit' = 1
                    /\ BudgetView_id' = newBudget.id
                    /\ BudgetView_budget' = NoBudget
                    /\ BudgetView_totals' = NoTotals
                    /\ inflight' = {}
                    /\ appliedBudget' = NoBudget
                    /\ UNCHANGED handlersBegun
               ELSE UNCHANGED <<budgetsState, budgetLimit, budgetViewVars>>
    /\ UNCHANGED <<now, counterDoc, allocVars, settingsVars,
                   othersOfBudgetView, pristine, lastWrite, clients, invoices,
                   limitsDoc, invoicesThisMonth, invoiceLimit>>

\* one iteration of the loop over the budgets kept in localStorage
migrateFromLocalStorage(dateCreated, writeOk) ==
    /\ Cardinality(budgets) < MaxBudgets
    /\ createBudget([id |-> 0, dateCreated |-> dateCreated,
                     startingAmount |-> 0, lineItems |-> <<>>],
                    NewId(BudgetIds, IdsOf(budgets)), writeOk)
    /\ UNCHANGED <<now, counterDoc, allocVars, settingsVars, viewVars, pristine,
                   lastWrite, clients, invoices, limitsDoc, pageVars>>

deleteBudget(id) ==
    /\ \E b \in budgets : b.id = id
    /\ budgets' = {b \in budgets : b.id # id}
    /\ lastOp' = Op("deleteBudget", "ok", TRUE)
    /\ UNCHANGED <<now, counterDoc, allocVars, settingsVars, viewVars, pristine,
                   lastWrite, clients, invoices, limitsDoc, pageVars>>

(***************************************************************************)
(* storage.ts: writes of the recurring expense templates                   *)
(***************************************************************************)
\* setDoc(expenseRef, expenseData): the document of expense.id is replaced
createRecurringExpense(expense) ==
    {e \in recurringExpenses : e.id # expense.id} \cup {expense}

\* updateDoc(expenseRef, expenseData) on a collection; it fails when the
\* document does not exist
canUpdate(collection, expense) == \E e \in collection : e.id = expense.id
updateIn(collection, expense) ==
    {e \in collection : e.id # expense.id} \cup {expense}

\* variant: an update of a template is carried into the line items of the
\* stored budgets
updateRecurringExpense_Propagate(expense) ==
    /\ recurringExpenses' = updateIn(recurringExpenses, expense)
    /\ budgets' = {[b EXCEPT !.lineItems =
                       [i \in 1..Len(b.lineItems) |->
                           [b.lineItems[i] EXCEPT !.amount = expense.amount]]]
                   : b \in budgets}

updateRecurringExpense(expense) ==
    /\ recurringExpenses' = updateIn(recurringExpenses, expense)
    /\ budgets' = budgets

RECURSIVE updateAll(_, _)
updateAll(collection, items) ==
    IF items = <<>> THEN collection
    ELSE updateAll(updateIn(collection, Head(items)), Tail(items))

deleteRecurringExpense(id) == {e \in recurringExpenses : e.id # id}

Remove(seq, x) == SelectSeq(seq, LAMBDA y : y # x)

(***************************************************************************)
(* RecurringExpenses page                                                  *)
(***************************************************************************)
\* what the user typed into the row being edited
EditValues ==
    {[name |-> "Rent", amount |-> "50", link |-> "", note |-> "",
      isAutomatic |-> FALSE],
     [name |-> "Gym", amount |-> "0", link |-> "url", note |-> "memo",
      isAutomatic |-> TRUE],
     [name |-> "Pay", amount |-> "-20", link |-> "", note |-> "",
      isAutomatic |-> TRUE],
     [name |-> " ", amount |-> "50", link |-> "", note |-> "",
      isAutomatic |-> FALSE],
     [name |-> "Rent", amount |-> "abc", link |-> "", note |-> "",
      isAutomatic |-> FALSE]}

NaN == [nan |-> TRUE, value |-> 0]
Number(v) == [nan |-> FALSE, value |-> v]
isNaN(x) == x.nan

\* parseFloat of the texts typed
parseFloat(text) ==
    CASE text = "50" -> Number(50)
      [] text = "0" -> Number(0)
      [] text = "-20" -> Number(0 - 20)
      [] text = "7" -> Number(7)
      [] OTHER -> NaN

trim(text) ==
    CASE text = " " -> ""
      [] text = " A@B.co" -> "A@B.co"
      [] text = "Owner@x.co " -> "Owner@x.co"
      [] OTHER -> text

\* loadedExpenses.map((expense, index) => ...): a template without order
\* gets its index
migratedExpenses(loadedExpenses) ==
    [i \in 1..Len(loadedExpenses) |->
        IF loadedExpenses[i].order = Null
        THEN [loadedExpenses[i] EXCEPT !.order = i - 1]
        ELSE loadedExpenses[i]]

\* mount of the page
loadExpenses(readOk, writeOk) ==
    LET loadedExpenses == getRecurringExpenses(readOk)
        migrated == migratedExpenses(loadedExpenses)
        needsUpdate == \E i \in 1..Len(loadedExpenses) :
                           loadedExpenses[i].order = Null
    IN  /\ IF needsUpdate /\ ~writeOk
           THEN UNCHANGED <<recurringExpenses, expenses>>
           ELSE /\ recurringExpenses' =
                       IF needsUpdate
                       THEN updateAll(recurringExpenses, migrated)
                       ELSE recurringExpenses
                /\ expenses' = migrated
        /\ newlyCreatedId' = Null
        /\ <<expenses', newlyCreatedId'>> # <<expenses, newlyCreatedId>>
        /\ lastOp' = NoOp
        /\ UNCHANGED <<now, counterDoc, allocVars, settingsVars, othersOfTemplates,
                       pristine,
                       lastWrite, storeVars, pageVars, insertion>>

handleAddExpense(id, writeOk) ==
    LET newExpense == [id |-> id, name |-> "New Expense", amount |-> 0,
                       isAutomatic |-> FALSE, order |-> Len(expenses),
                       link |-> Undefined, note |-> Undefined]
    IN  /\ id \in TemplateIds \ IdsOf(recurringExpenses)
        /\ IF writeOk
           THEN /\ recurringExpenses' = createRecurringExpense(newExpense)
                /\ expenses' = Append(expenses, newExpense)
                /\ newlyCreatedId' = id
                /\ insertion' = Append(insertion, id)
           ELSE UNCHANGED templateVars
        /\ lastOp' = NoOp
        /\ UNCHANGED <<now, counterDoc, allocVars, settingsVars, othersOfTemplates,
                       pristine,
                       lastWrite, storeVars, pageVars>>

\* the row's handleSave: validation, handleUpdateExpense, handleSaveEdit
handleUpdateExpense(id, editValues, writeOk) ==
    LET amount == parseFloat(editValues.amount)
    IN  /\ ~isNaN(amount)
        /\ trim(editValues.name) # ""
        /\ \E i \in 1..Len(expenses) :
            /\ expenses[i].id = id
            /\ LET updated == [expenses[i] EXCEPT
                                  !.name = editValues.name,
                                  !.amount = amount.value,
                                  !.link = OrEmpty(editValues.link),
                                  !.note = OrEmpty(editValues.note),
                                  !.isAutomatic = editValues.isAutomatic]
               IN  IF writeOk /\ canUpdate(recurringExpenses, updated)
                   THEN /\ updateRecurringExpense(updated)
                        /\ expenses' = [expenses EXCEPT ![i] = updated]
                   ELSE UNCHANGED <<recurringExpenses, budgets, expenses>>
        /\ newlyCreatedId' = Null
        /\ lastOp' = NoOp
        /\ UNCHANGED <<now, counterDoc, allocVars, settingsVars, othersOfTemplates,
                       pristine,
                       lastWrite, clients, invoices, limitsDoc, pageVars,
                       insertion>>

handleDeleteExpense(id, writeOk) ==
    /\ \E i \in 1..Len(expenses) : expenses[i].id = id
    /\ IF writeOk
       THEN /\ recurringExpenses' = deleteRecurringExpense(id)
            /\ expenses' = SelectSeq(expenses, LAMBDA e : e.id # id)
            /\ insertion' = Remove(insertion, id)
       ELSE UNCHANGED <<recurringExpenses, expenses, insertion>>
    /\ lastOp' = NoOp
    /\ UNCHANGED <<now, counterDoc, allocVars, settingsVars, othersOfTemplates,
                       pristine,
                   lastWrite, storeVars, pageVars, newlyCreatedId>>

\* cancel of the row of a template that was added and not yet saved
handleCancelEdit(id, writeOk) ==
    /\ \E i \in 1..Len(expenses) : expenses[i].id = id
    /\ id = newlyCreatedId
    /\ IF writeOk
       THEN /\ recurringExpenses' = deleteRecurringExpense(id)
            /\ expenses' = SelectSeq(expenses, LAMBDA e : e.id # id)
            /\ insertion' = Remove(insertion, id)
            /\ newlyCreatedId' = Null
       ELSE UNCHANGED templateVars
    /\ lastOp' = NoOp
    /\ UNCHANGED <<now, counterDoc, allocVars, settingsVars, othersOfTemplates,
                       pristine,
                   lastWrite, storeVars, pageVars>>

\* items.splice(dragIndex, 1); items.splice(dropIndex, 0, draggedItem),
\* with the indices counted from 1
splice(items, dragIndex, dropIndex) ==
    LET draggedItem == items[dragIndex]
        rest == SubSeq(items, 1, dragIndex - 1)
                    \o SubSeq(items, dragIndex + 1, Len(items))
    IN  SubSeq(rest, 1, dropIndex - 1) \o <<draggedItem>>
            \o SubSeq(rest, dropIndex, Len(rest))

handleReorderExpenses(dragIndex, dropIndex, writeOk) ==
    LET items == splice(expenses, dragIndex, dropIndex)
        updatedItems == [i \in 1..Len(items) |->
                            [items[i] EXCEPT !.order = i - 1]]
    IN  /\ dragIndex \in 1..Len(expenses)
        /\ dropIndex \in 1..Len(expenses)
        /\ dragIndex # dropIndex
        /\ expenses' = updatedItems
        /\ recurringExpenses' =
               IF writeOk /\ \A i \in 1..Len(updatedItems) :
                                canUpdate(recurringExpenses, updatedItems[i])
               THEN updateAll(recurringExpenses, updatedItems)
               ELSE recurringExpenses
        /\ lastOp' = NoOp
        /\ UNCHANGED <<now, counterDoc, allocVars, settingsVars, othersOfTemplates,
                       pristine,
                       lastWrite, storeVars, pageVars, newlyCreatedId,
                       insertion>>

\* one iteration of the loop over the templates kept in localStorage
migrateRecurringExpense(expense, writeOk) ==
    /\ expense.id \in TemplateIds \ IdsOf(recurringExpenses)
    /\ IF writeOk
       THEN /\ recurringExpenses' = createRecurringExpense(expense)
            /\ insertion' = Append(insertion, expense.id)
       ELSE UNCHANGED <<recurringExpenses, insertion>>
    /\ lastOp' = NoOp
    /\ UNCHANGED <<now, counterDoc, allocVars, settingsVars, othersOfTemplates,
                       pristine,
                   lastWrite, storeVars, pageVars, expenses, newlyCreatedId>>

(***************************************************************************)
(* BudgetView: the totals.  Amounts are JavaScript numbers: a sum is       *)
(* rounded to the nearest number that has MantissaBits significant bits    *)
(* (53 in the program), ties to the even one.                              *)
(***************************************************************************)
MantissaBits == 3
MaxItems == 2

Abs(x) == IF x < 0 THEN 0 - x ELSE x

\* the distance between neighbouring numbers at magnitude a
RECURSIVE Ulp(_)
Ulp(a) == IF a < 2 ^ MantissaBits THEN 1 ELSE 2 * Ulp(a \div 2)

RoundToNearestEven(x) ==
    LET a == Abs(x)
        u == Ulp(a)
        q == a \div u
        r == a % u
        m == IF 2 * r > u \/ (2 * r = u /\ q % 2 = 1) THEN q + 1 ELSE q
    IN  IF x < 0 THEN 0 - (m * u) ELSE m * u

\* a + b
Plus(a, b) == RoundToNearestEven(a + b)

\* items.reduce((sum, item) => sum + item.amount, 0)
RECURSIVE reduce(_)
reduce(items) ==
    IF items = <<>> THEN 0
    ELSE Plus(reduce(SubSeq(items, 1, Len(items) - 1)),
              items[Len(items)].amount)

\* variant: the first total sums the marked items
calculateTotals_Marked(budget_) ==
    IF ~budget_.loaded
    THEN [computed |-> TRUE, unmarkedTotal |-> 0, finalTotal |-> 0]
    ELSE LET unmarkedTotal ==
                 reduce(SelectSeq(budget_.lineItems,
                                  LAMBDA item : item.isMarked))
             allItemsTotal == reduce(budget_.lineItems)
         IN  [computed |-> TRUE,
              unmarkedTotal |-> Plus(budget_.startingAmount, unmarkedTotal),
              finalTotal |-> Plus(budget_.startingAmount, allItemsTotal)]

calculateTotals(budget_) ==
    IF ~budget_.loaded
    THEN [computed |-> TRUE, unmarkedTotal |-> 0, finalTotal |-> 0]
    ELSE LET unmarkedTotal ==
                 reduce(SelectSeq(budget_.lineItems,
                                  LAMBDA item : ~item.isMarked))
             allItemsTotal == reduce(budget_.lineItems)
         IN  [computed |-> TRUE,
              unmarkedTotal |-> Plus(budget_.startingAmount, unmarkedTotal),
              finalTotal |-> Plus(budget_.startingAmount, allItemsTotal)]

\* the budgets a view may have loaded: signed amounts, any status, marked
\* or not
StartingAmounts == {0, 7, 0 - 3}
ItemInputs ==
    [amount : {1, 4, 0 - 2}, status : {"incomplete", "complete"},
     isMarked : BOOLEAN]
RECURSIVE SeqsUpTo(_, _)
SeqsUpTo(S, n) ==
    IF n = 0 THEN {<<>>}
    ELSE SeqsUpTo(S, n - 1) \cup
         {Append(q, x) : q \in {t \in SeqsUpTo(S, n - 1) : Len(t) = n - 1},
                         x \in S}

budgetViewFrame == <<now, counterDoc, allocVars, settingsVars,
                     othersOfBudgetView, pristine, lastWrite, storeVars,
                     pageVars, lastOp>>

\* getBudget(id): the stored document of that id, or undefined
getBudget(id, ok) ==
    IF ok /\ id \in IdsOf(budgets)
    THEN CHOOSE b \in budgets : b.id = id
    ELSE [id |-> Null, dateCreated |-> 0, startingAmount |-> 0,
          lineItems |-> <<>>]

\* the mount: without the budget the view goes back to /budgets; with it
\* setBudget(loadedBudget), and the render that follows it with
\* const totals = calculateTotals()
loadBudget(readOk) ==
    LET loadedBudget == getBudget(BudgetView_id, readOk)
    IN  /\ BudgetView_id # NotMounted
        /\ ~BudgetView_budget.loaded
        /\ IF loadedBudget.id = Null
           THEN /\ BudgetView_id' = NotMounted
                /\ UNCHANGED <<BudgetView_budget, BudgetView_totals,
                               appliedBudget>>
           ELSE /\ BudgetView_budget' =
                       [startingAmount |-> loadedBudget.startingAmount,
                        lineItems |-> loadedBudget.lineItems,
                        loaded |-> TRUE]
                /\ BudgetView_totals' = calculateTotals(BudgetView_budget')
                /\ appliedBudget' = BudgetView_budget'
                /\ UNCHANGED BudgetView_id
        /\ UNCHANGED <<inflight, handlersBegun, budgetViewFrame>>

(***************************************************************************)
(* InvoiceEditor and the actions of the Invoices page.  A line item is     *)
(* known by its place in the list (its id is a random one of its own).     *)
(***************************************************************************)
\* a * b
Times(a, b) == RoundToNearestEven(a * b)

\* x || 0
OrZero(x) == IF x = 0 THEN 0 ELSE x

\* what the user types into a line: hours, a rate, a description
LineItemUpdates == {[hours |-> 3], [rate |-> 5], [description |-> ""]}
InvoiceStatuses == {"draft", "sent", "paid", "archived"}

Mounted == InvoiceEditor_id # NotMounted
isPaid == InvoiceEditor_invoice.status = "paid"

editorFrame == <<now, counterDoc, allocVars, settingsVars, othersOfEditor,
                 pristine, lastWrite, clients, budgets, limitsDoc, pageVars>>

\* useState<Invoice>({...}): the invoice of a mount; its random id is chosen
\* when it is saved
\* the clock is read twice, by new Date() for dateCreated and by Date.now()
\* for dateDue; elapsed is the milliseconds it advanced in between
defaultInvoice(elapsed) ==
    [NoInvoice EXCEPT !.dateCreated = now,
                      !.dateDue = [after |-> now, extra |-> elapsed]]

\* new Date(created.getTime() + 30 * 24 * 60 * 60 * 1000).toISOString()
calculateDueDate(dateCreated) == [after |-> dateCreated, extra |-> 0]

getInvoice(id, ok) ==
    IF ok /\ \E inv \in invoices : inv.id = id
    THEN CHOOSE inv \in invoices : inv.id = id
    ELSE NoInvoice

\* allInvoices[0] of orderBy('dateCreated', 'desc'): the latest date, equal
\* dates by document id in the direction of the query
lastInvoice(allInvoices) ==
    CHOOSE inv \in allInvoices :
        \A other \in allInvoices :
            \/ inv.dateCreated > other.dateCreated
            \/ inv.dateCreated = other.dateCreated /\ inv.id >= other.id

\* navigate('/billing/invoices')
unmount ==
    /\ InvoiceEditor_id' = NotMounted
    /\ InvoiceEditor_invoice' = NoInvoice

\* the mount of the editor at /billing/invoices/new (no id) or at
\* /billing/invoices/<id>/edit, and its loadData
InvoiceEditor_loadData(id, readOk, elapsed) ==
    /\ ~Mounted
    /\ InvoiceEditor_id' = id
    /\ InvoiceEditor_invoice' =
           IF id # Null
           THEN LET existingInvoice == getInvoice(id, readOk)
                IN  IF existingInvoice.id # Null THEN existingInvoice
                    ELSE defaultInvoice(elapsed)
           ELSE LET allInvoices == getInvoices(readOk)
                IN  IF allInvoices # {}
                    THEN [defaultInvoice(elapsed) EXCEPT
                              !.clientId = lastInvoice(allInvoices).clientId,
                              !.lineItems = lastInvoice(allInvoices).lineItems,
                              !.total = lastInvoice(allInvoices).total]
                    ELSE defaultInvoice(elapsed)
    /\ lastOp' = NoOp
    /\ UNCHANGED <<invoices, editorFrame>>

\* the select is disabled once the invoice is paid
handleClientChange(clientId) ==
    /\ Mounted
    /\ ~isPaid
    /\ \E client \in clients : client.id = clientId
    /\ InvoiceEditor_invoice' = [InvoiceEditor_invoice EXCEPT
                                    !.clientId = clientId]
    /\ lastOp' = NoOp
    /\ UNCHANGED <<InvoiceEditor_id, invoices, editorFrame>>

\* the date input is disabled once the invoice is paid
handleDateCreatedChange(dateCreated) ==
    /\ Mounted
    /\ ~isPaid
    /\ InvoiceEditor_invoice' =
           [InvoiceEditor_invoice EXCEPT
                !.dateCreated = dateCreated,
                !.dateDue = calculateDueDate(dateCreated)]
    /\ lastOp' = NoOp
    /\ UNCHANGED <<InvoiceEditor_id, invoices, editorFrame>>

\* the select is not rendered once the invoice is paid
handleStatusChange(status) ==
    /\ Mounted
    /\ ~isPaid
    /\ InvoiceEditor_invoice' =
           [InvoiceEditor_invoice EXCEPT
                !.status = status,
                !.datePaid = IF status = "paid" /\ @ = Null THEN now
                             ELSE IF status # "paid" THEN Null
                             ELSE @]
    /\ lastOp' = NoOp
    /\ UNCHANGED <<InvoiceEditor_id, invoices, editorFrame>>

\* the button is disabled without a client and once the invoice is paid
addLineItem ==
    /\ Mounted
    /\ InvoiceEditor_invoice.clientId # Null
    /\ ~isPaid
    /\ Len(InvoiceEditor_invoice.lineItems) < MaxItems
    /\ LET selectedClient ==
               {c \in clients : c.id = InvoiceEditor_invoice.clientId}
           newItem ==
               [description |-> "", hours |-> 0,
                rate |-> IF selectedClient = {} THEN 0
                         ELSE OrZero((CHOOSE c \in selectedClient : TRUE)
                                         .hourlyRate),
                amount |-> 0]
       IN  InvoiceEditor_invoice' =
               [InvoiceEditor_invoice EXCEPT !.lineItems = Append(@, newItem)]
    /\ lastOp' = NoOp
    /\ UNCHANGED <<InvoiceEditor_id, invoices, editorFrame>>

\* { ...item, ...updates }
Spread(item, updates) ==
    [f \in DOMAIN item |-> IF f \in DOMAIN updates THEN updates[f]
                           ELSE item[f]]

\* variant: the amount of the line is left as it was
updatedLineItems_KeepAmount(lineItems, i, updates) ==
    [k \in 1..Len(lineItems) |->
        IF k = i THEN Spread(lineItems[k], updates) ELSE lineItems[k]]

updatedLineItems(lineItems, i, updates) ==
    [k \in 1..Len(lineItems) |->
        IF k = i
        THEN LET updated == Spread(lineItems[k], updates)
             IN  IF "hours" \in DOMAIN updates \/ "rate" \in DOMAIN updates
                 THEN [updated EXCEPT
                           !.amount = Times(updated.hours, updated.rate)]
                 ELSE updated
        ELSE lineItems[k]]

\* the inputs of a line are disabled once the invoice is paid
updateLineItem(i, updates) ==
    /\ Mounted
    /\ ~isPaid
    /\ i \in 1..Len(InvoiceEditor_invoice.lineItems)
    /\ LET items == updatedLineItems(InvoiceEditor_invoice.lineItems, i,
                                     updates)
       IN  InvoiceEditor_invoice' =
               [InvoiceEditor_invoice EXCEPT !.lineItems = items,
                                             !.total = reduce(items)]
    /\ lastOp' = NoOp
    /\ UNCHANGED <<InvoiceEditor_id, invoices, editorFrame>>

\* the button is not rendered once the invoice is paid
deleteLineItem(i) ==
    /\ Mounted
    /\ ~isPaid
    /\ i \in 1..Len(InvoiceEditor_invoice.lineItems)
    /\ LET old == InvoiceEditor_invoice.lineItems
           items == SubSeq(old, 1, i - 1) \o SubSeq(old, i + 1, Len(old))
       IN  InvoiceEditor_invoice' =
               [InvoiceEditor_invoice EXCEPT !.lineItems = items,
                                             !.total = reduce(items)]
    /\ lastOp' = NoOp
    /\ UNCHANGED <<InvoiceEditor_id, invoices, editorFrame>>

\* updateDoc(invoiceRef, invoiceData): the fields given replace those of the
\* stored document, which has to exist
canUpdateInvoice(invoice) == \E inv \in invoices : inv.id = invoice.id
updateInvoice(invoice) ==
    {IF inv.id = invoice.id
     THEN [f \in DOMAIN inv |-> IF f \in {"dateSent", "datePaid"} /\ invoice[f] = Null
                                THEN inv[f]
                                ELSE invoice[f]]
     ELSE inv : inv \in invoices}

\* Save Draft / Save Changes: the button is not rendered once the invoice
\* is paid
Editor_handleSave(txOk, readOk, limitsOk, writeOk) ==
    /\ Mounted
    /\ ~isPaid
    /\ IF InvoiceEditor_id = Null
       THEN /\ handleSave([InvoiceEditor_invoice EXCEPT
                               !.id = NewId(InvoiceIds, IdsOf(invoices)),
                               !.status = "draft"],
                          InvoiceEditor_invoice.clientId # Null,
                          Len(InvoiceEditor_invoice.lineItems),
                          txOk, readOk, limitsOk, writeOk)
            /\ IF lastOp'.outcome = "ok" THEN unmount
               ELSE UNCHANGED editorVars
       ELSE LET ok == writeOk /\ canUpdateInvoice(InvoiceEditor_invoice)
            IN  /\ InvoiceEditor_invoice.clientId # Null
                /\ Len(InvoiceEditor_invoice.lineItems) # 0
                /\ invoices' = IF ok THEN updateInvoice(InvoiceEditor_invoice)
                               ELSE invoices
                /\ lastOp' = Op("updateInvoice",
                                IF ok THEN "ok" ELSE "error", writeOk)
                /\ IF ok THEN unmount ELSE UNCHANGED editorVars
                /\ UNCHANGED editorFrame

\* Delete Invoice: rendered whenever the route has an id
handleDelete(writeOk) ==
    /\ Mounted
    /\ InvoiceEditor_id # Null
    /\ invoices' = IF writeOk
                   THEN {inv \in invoices : inv.id # InvoiceEditor_id}
                   ELSE invoices
    /\ lastOp' = Op("deleteInvoice", IF writeOk THEN "ok" ELSE "error",
                    writeOk)
    /\ IF writeOk THEN unmount ELSE UNCHANGED editorVars
    /\ UNCHANGED editorFrame

\* Back to Invoices / Cancel
InvoiceEditor_cancel ==
    /\ Mounted
    /\ unmount
    /\ lastOp' = NoOp
    /\ UNCHANGED <<invoices, editorFrame>>

\* Invoices page: the button is rendered for the invoices that are not paid
handleMarkAsPaid(invoice, writeOk) ==
    /\ ~Mounted
    /\ invoice \in invoices
    /\ invoice.status # "paid"
    /\ invoices' = IF writeOk
                   THEN updateInvoice([invoice EXCEPT !.status = "paid",
                                                      !.datePaid = now])
                   ELSE invoices
    /\ lastOp' = Op("updateInvoice", IF writeOk THEN "ok" ELSE "error",
                    writeOk)
    /\ UNCHANGED <<editorVars, editorFrame>>

\* { ...invoice, status: invoice.status === 'draft' ? 'sent' :
\* invoice.status, dateSent: new Date().toISOString() }
sentInvoice(invoice) ==
    [invoice EXCEPT !.status = IF @ = "draft" THEN "sent" ELSE @,
                    !.dateSent = now]

\* Invoices page, Send Email: rendered for every invoice; sendOk says that
\* the company email is set and the callable sent the mail
sendInvoiceEmail(invoice, sendOk, writeOk) ==
    /\ ~Mounted
    /\ invoice \in invoices
    /\ invoices' =
           IF sendOk /\ writeOk
           THEN updateInvoice(sentInvoice(invoice))
           ELSE invoices
    /\ lastOp' = Op("sendInvoiceEmail",
                    IF sendOk /\ writeOk THEN "ok" ELSE "error",
                    sendOk /\ writeOk)
    /\ UNCHANGED <<editorVars, editorFrame>>

(***************************************************************************)
(* The storage layer as called by whoever is signed in: every operation    *)
(* resolves the user, builds its path and reads or writes; the flag ok     *)
(* says whether the backend answers.                                       *)
(***************************************************************************)
Users == {"A", "B"}
DocId == "1"

nonAuthVars == <<now, counterDoc, allocVars, settingsVars, pristine,
                 lastWrite, storeVars, pageVars, lastOp, othersOfAuth>>

\* variant: without a signed-in user the operations fall back on one
\* shared identity
getUserId_Shared ==
    [thrown |-> FALSE, uid |-> IF currentUser = NoUser THEN "A"
                               ELSE currentUser]

\* const uid = auth.currentUser?.uid; if (!uid) throw ...
getUserId ==
    IF currentUser = NoUser THEN [thrown |-> TRUE, uid |-> NoUser]
    ELSE [thrown |-> FALSE, uid |-> currentUser]

\* collection(db, 'users', userId, name) / doc(db, 'users', userId, ...)
userPath(userId, suffix) == <<"users", userId>> \o suffix

\* try { getUserId(); read } catch { return fallback }
readCaught(op, suffix, fallback) ==
    LET userId == getUserId
    IN  /\ \E ok \in BOOLEAN :
            IF userId.thrown
            THEN /\ access' = {}
                 /\ result' = Returned(op, fallback)
            ELSE /\ access' = {userPath(userId.uid, suffix)}
                 /\ result' = IF ok THEN Returned(op, "data")
                              ELSE Returned(op, fallback)
        /\ UNCHANGED <<currentUser, db, nonAuthVars>>

\* getUserId() ahead of the try: the unauthenticated error leaves the
\* operation, a failed read is caught
readAfterUser(op, suffix, fallback) ==
    LET userId == getUserId
    IN  /\ \E ok \in BOOLEAN :
            IF userId.thrown
            THEN /\ access' = {}
                 /\ result' = Thrown(op, "unauthenticated")
            ELSE /\ access' = {userPath(userId.uid, suffix)}
                 /\ result' = IF ok THEN Returned(op, "data")
                              ELSE Returned(op, fallback)
        /\ UNCHANGED <<currentUser, db, nonAuthVars>>

\* what a write makes of the documents
written(mode, path) ==
    CASE mode = "set" -> db \cup {path}
      [] mode = "delete" -> db \ {path}
      [] mode = "update" -> db

\* try { getUserId(); extra reads; write } catch { throw error }
writeRethrown(op, reads, suffix, mode) ==
    LET userId == getUserId
        path == userPath(userId.uid, suffix)
    IN  /\ \E ok \in BOOLEAN :
            IF userId.thrown
            THEN /\ access' = {}
                 /\ result' = Thrown(op, "unauthenticated")
                 /\ db' = db
            ELSE /\ access' = {path} \cup
                              {userPath(userId.uid, r) : r \in reads}
                 /\ IF ok /\ (mode = "update" => path \in db)
                    THEN /\ db' = written(mode, path)
                         /\ result' = Returned(op, "void")
                    ELSE /\ db' = db
                         /\ result' = Thrown(op, "unavailable")
        /\ UNCHANGED <<currentUser, nonAuthVars>>

storage_getBudgets == readCaught("getBudgets", <<"budgets">>, "[]")
storage_getBudget ==
    readCaught("getBudget", <<"budgets", DocId>>, "undefined")
storage_createBudget ==
    /\ currentUser # NoUser => userPath(currentUser, <<"budgets", DocId>>)
                                   \notin db
    /\ writeRethrown("createBudget", {}, <<"budgets", DocId>>, "set")
storage_updateBudget ==
    writeRethrown("updateBudget", {}, <<"budgets", DocId>>, "update")
storage_deleteBudget ==
    writeRethrown("deleteBudget", {}, <<"budgets", DocId>>, "delete")
storage_getRecurringExpenses ==
    readCaught("getRecurringExpenses", <<"recurringExpenses">>, "[]")
storage_createRecurringExpense ==
    writeRethrown("createRecurringExpense", {},
                  <<"recurringExpenses", DocId>>, "set")
storage_deleteRecurringExpense ==
    writeRethrown("deleteRecurringExpense", {},
                  <<"recurringExpenses", DocId>>, "delete")

billingStorage_getClients == readCaught("getClients", <<"clients">>, "[]")
billingStorage_getClientsCount ==
    readCaught("getClientsCount", <<"clients">>, "0")
billingStorage_getClient ==
    readCaught("getClient", <<"clients", DocId>>, "undefined")
\* the limits and the count are read ahead of the write
billingStorage_createClient ==
    writeRethrown("createClient", {<<"settings", "limits">>, <<"clients">>},
                  <<"clients", DocId>>, "set")
billingStorage_deleteClient ==
    writeRethrown("deleteClient", {}, <<"clients", DocId>>, "delete")
billingStorage_getInvoiceCounter ==
    readCaught("getInvoiceCounter", <<"counters", "invoiceCounter">>, "null")
billingStorage_updateInvoiceCounter ==
    writeRethrown("updateInvoiceCounter", {},
                  <<"counters", "invoiceCounter">>, "set")
\* getUserId() and the transaction are not inside a try
billingStorage_getNextInvoiceNumber ==
    writeRethrown("getNextInvoiceNumber", {},
                  <<"counters", "invoiceCounter">>, "set")
billingStorage_getInvoices == readCaught("getInvoices", <<"invoices">>, "[]")
billingStorage_getInvoicesCreatedThisMonthCount ==
    readAfterUser("getInvoicesCreatedThisMonthCount", <<"invoices">>, "0")

\* no uid: the defaults of the Free plan; a failed read is thrown
superAdminStorage_getCurrentUserLimits ==
    /\ \E ok \in BOOLEAN :
        IF currentUser = NoUser
        THEN /\ access' = {}
             /\ result' = Returned("getCurrentUserLimits", "defaults")
        ELSE /\ access' = {userPath(currentUser, <<"settings", "limits">>)}
             /\ result' = IF ok THEN Returned("getCurrentUserLimits", "data")
                          ELSE Thrown("getCurrentUserLimits", "unavailable")
    /\ UNCHANGED <<currentUser, db, nonAuthVars>>

\* the auth provider reports a user, or none after signOut(auth)
signIn(user) ==
    /\ currentUser = NoUser
    /\ currentUser' = user
    /\ access' = {}
    /\ result' = NoResult
    /\ UNCHANGED <<db, nonAuthVars>>

signOut ==
    /\ currentUser # NoUser
    /\ currentUser' = NoUser
    /\ access' = {}
    /\ result' = NoResult
    /\ UNCHANGED <<db, nonAuthVars>>

(***************************************************************************)
(* Specification of the allocator and the settings screen                  *)
(***************************************************************************)
Init ==
    /\ now = StartInstant
    /\ counterDoc \in {NoDoc} \cup
         {CounterDoc(y, c) : y \in {StartYear - 1, StartYear}, c \in InitCounts}
    /\ pc = [p \in Procs |-> "idle"]
    /\ currentYear = [p \in Procs |-> 0]
    /\ txSnap = [p \in Procs |-> NoDoc]
    /\ txStale = [p \in Procs |-> FALSE]
    /\ allocs = <<>>
    /\ invoiceCounter = NoDoc
    /\ started = 0
    /\ pristine = ~counterDoc.exists
    /\ lastWrite = NoWrite
    /\ clients = {}
    /\ invoices = {}
    /\ budgets = {}
    /\ limitsDoc = NoLimits
    /\ budgetsState = {}
    /\ budgetLimit = 1
    /\ invoicesThisMonth = 0
    /\ invoiceLimit = 2
    /\ lastOp = NoOp
    /\ recurringExpenses = {}
    /\ expenses = <<>>
    /\ newlyCreatedId = Null
    /\ insertion = <<>>
    /\ currentUser = "A"
    /\ db = {}
    /\ access = {}
    /\ result = NoResult
    /\ editingClient = NoClient
    /\ Clients_newlyCreatedId = Null
    /\ BudgetView_budget = NoBudget
    /\ BudgetView_totals = NoTotals
    /\ InvoiceEditor_id = NotMounted
    /\ InvoiceEditor_invoice = NoInvoice
    /\ request = NoRequest
    /\ Invoices_invoices = {}
    /\ emailModalData = NoModal
    /\ additionalCcEntries = <<>>
    /\ invoiceCcEmails = <<>>
    /\ ccRecipients = <<>>
    /\ Cc = <<>>
    /\ BudgetView_id = NotMounted
    /\ inflight = {}
    /\ appliedBudget = NoBudget
    /\ handlersBegun = 0
    /\ lastCall = NoCall
    /\ pageQuery = NoQuery
    /\ pageResult = NoPage
    /\ visited = <<>>
    /\ pagesRead = 0

Next ==
    \/ \E p \in Procs : getNextInvoiceNumber_begin(p)
    \/ \E p \in Procs : transaction_get(p)
    \/ \E p \in Procs : transaction_commit(p)
    \/ \E p \in Procs : transaction_retry(p)
    \/ loadSettings
    \/ \E c \in CountInputs : setInvoiceCounter(c)
    \/ handleSaveCounter
    \/ Tick

Spec == Init /\ [][Next]_vars

(***************************************************************************)
(* Specification of the plan-limit gate: the stores of clients and         *)
(* invoices, the counter and the invoice editor                            *)
(***************************************************************************)
InitGate ==
    /\ now = StartInstant
    /\ counterDoc \in {NoDoc, CounterDoc(StartYear, 2)}
    /\ pc = [p \in Procs |-> "idle"]
    /\ currentYear = [p \in Procs |-> 0]
    /\ txSnap = [p \in Procs |-> NoDoc]
    /\ txStale = [p \in Procs |-> FALSE]
    /\ allocs = <<>>
    /\ invoiceCounter = NoDoc
    /\ started = 0
    /\ pristine = ~counterDoc.exists
    /\ lastWrite = NoWrite
    /\ clients = {}
    /\ invoices = {}
    /\ budgets = {}
    /\ limitsDoc \in LimitsDocs
    /\ budgetsState = {}
    /\ budgetLimit = 1
    /\ invoicesThisMonth = 0
    /\ invoiceLimit = 2
    /\ lastOp = NoOp
    /\ recurringExpenses = {}
    /\ expenses = <<>>
    /\ newlyCreatedId = Null
    /\ insertion = <<>>
    /\ currentUser = "A"
    /\ db = {}
    /\ access = {}
    /\ result = NoResult
    /\ editingClient = NoClient
    /\ Clients_newlyCreatedId = Null
    /\ BudgetView_budget = NoBudget
    /\ BudgetView_totals = NoTotals
    /\ InvoiceEditor_id = NotMounted
    /\ InvoiceEditor_invoice = NoInvoice
    /\ request = NoRequest
    /\ Invoices_invoices = {}
    /\ emailModalData = NoModal
    /\ additionalCcEntries = <<>>
    /\ invoiceCcEmails = <<>>
    /\ ccRecipients = <<>>
    /\ Cc = <<>>
    /\ BudgetView_id = NotMounted
    /\ inflight = {}
    /\ appliedBudget = NoBudget
    /\ handlersBegun = 0
    /\ lastCall = NoCall
    /\ pageQuery = NoQuery
    /\ pageResult = NoPage
    /\ visited = <<>>
    /\ pagesRead = 0

NextGate ==
    \/ handleAddClient
    \/ \E id \in ClientIds : deleteClient(id)
    \/ InvoiceEditor_handleSave
    \/ \E id \in InvoiceIds : deleteInvoice(id)
    \/ Tick

SpecGate == InitGate /\ [][NextGate]_vars

(***************************************************************************)
(* Specification of the monthly counts: stores of invoices and budgets of  *)
(* any dates, the Invoices page and the Budgets page                       *)
(***************************************************************************)
\* the invoice stores the pages start from
InvoiceStores ==
    {{}} \cup
    {{[id |-> 1, dateCreated |-> d]} : d \in DateInputs} \cup
    {{[id |-> 1, dateCreated |-> StartInstant - 2],
      [id |-> 2, dateCreated |-> StartInstant],
      [id |-> 3, dateCreated |-> StartInstant + 1]}}

InitMonth ==
    /\ now = StartInstant
    /\ counterDoc = NoDoc
    /\ pc = [p \in Procs |-> "idle"]
    /\ currentYear = [p \in Procs |-> 0]
    /\ txSnap = [p \in Procs |-> NoDoc]
    /\ txStale = [p \in Procs |-> FALSE]
    /\ allocs = <<>>
    /\ invoiceCounter = NoDoc
    /\ started = 0
    /\ pristine = TRUE
    /\ lastWrite = NoWrite
    /\ clients = {}
    /\ invoices \in InvoiceStores
    /\ budgets = {}
    /\ limitsDoc \in LimitsDocs
    /\ budgetsState = {}
    /\ budgetLimit = 1
    /\ invoicesThisMonth = 0
    /\ invoiceLimit = 2
    /\ lastOp = NoOp
    /\ recurringExpenses = {}
    /\ expenses = <<>>
    /\ newlyCreatedId = Null
    /\ insertion = <<>>
    /\ currentUser = "A"
    /\ db = {}
    /\ access = {}
    /\ result = NoResult
    /\ editingClient = NoClient
    /\ Clients_newlyCreatedId = Null
    /\ BudgetView_budget = NoBudget
    /\ BudgetView_totals = NoTotals
    /\ InvoiceEditor_id = NotMounted
    /\ InvoiceEditor_invoice = NoInvoice
    /\ request = NoRequest
    /\ Invoices_invoices = {}
    /\ emailModalData = NoModal
    /\ additionalCcEntries = <<>>
    /\ invoiceCcEmails = <<>>
    /\ ccRecipients = <<>>
    /\ Cc = <<>>
    /\ BudgetView_id = NotMounted
    /\ inflight = {}
    /\ appliedBudget = NoBudget
    /\ handlersBegun = 0
    /\ lastCall = NoCall
    /\ pageQuery = NoQuery
    /\ pageResult = NoPage
    /\ visited = <<>>
    /\ pagesRead = 0

NextMonth ==
    \/ \E aggregateOk, docsOk \in BOOLEAN :
        Invoices_loadData(aggregateOk, docsOk)
    \/ \E budgetsOk, limitsOk \in BOOLEAN : loadBudgets(budgetsOk, limitsOk)
    \/ \E templatesOk, writeOk \in BOOLEAN :
        handleCreateBudget(templatesOk, writeOk)
    \/ \E d \in DateInputs, writeOk \in BOOLEAN :
        migrateFromLocalStorage(d, writeOk)
    \/ \E id \in BudgetIds : deleteBudget(id)
    \/ Tick

SpecMonth == InitMonth /\ [][NextMonth]_vars

(***************************************************************************)
(* Specification of the recurring templates: the RecurringExpenses page,   *)
(* the migration and the budgets created from the templates                *)
(***************************************************************************)
\* the templates found in localStorage: written by an older version, some
\* without order
LocalStorageExpenses ==
    {[id |-> id, name |-> "Old", amount |-> 7, isAutomatic |-> FALSE,
      order |-> o, link |-> Undefined, note |-> Undefined]
        : id \in TemplateIds, o \in {Null}}

InitTemplates ==
    /\ now = StartInstant
    /\ counterDoc = NoDoc
    /\ pc = [p \in Procs |-> "idle"]
    /\ currentYear = [p \in Procs |-> 0]
    /\ txSnap = [p \in Procs |-> NoDoc]
    /\ txStale = [p \in Procs |-> FALSE]
    /\ allocs = <<>>
    /\ invoiceCounter = NoDoc
    /\ started = 0
    /\ pristine = TRUE
    /\ lastWrite = NoWrite
    /\ clients = {}
    /\ invoices = {}
    /\ budgets = {}
    /\ limitsDoc \in TemplateLimitsDocs
    /\ budgetsState = {}
    /\ budgetLimit = 1
    /\ invoicesThisMonth = 0
    /\ invoiceLimit = 2
    /\ lastOp = NoOp
    /\ recurringExpenses = {}
    /\ expenses = <<>>
    /\ newlyCreatedId = Null
    /\ insertion = <<>>
    /\ currentUser = "A"
    /\ db = {}
    /\ access = {}
    /\ result = NoResult
    /\ editingClient = NoClient
    /\ Clients_newlyCreatedId = Null
    /\ BudgetView_budget = NoBudget
    /\ BudgetView_totals = NoTotals
    /\ InvoiceEditor_id = NotMounted
    /\ InvoiceEditor_invoice = NoInvoice
    /\ request = NoRequest
    /\ Invoices_invoices = {}
    /\ emailModalData = NoModal
    /\ additionalCcEntries = <<>>
    /\ invoiceCcEmails = <<>>
    /\ ccRecipients = <<>>
    /\ Cc = <<>>
    /\ BudgetView_id = NotMounted
    /\ inflight = {}
    /\ appliedBudget = NoBudget
    /\ handlersBegun = 0
    /\ lastCall = NoCall
    /\ pageQuery = NoQuery
    /\ pageResult = NoPage
    /\ visited = <<>>
    /\ pagesRead = 0

\* the Budgets page of a user who has no budget yet
Budgets_handleCreateBudget ==
    /\ budgets = {}
    /\ \E templatesOk, writeOk \in BOOLEAN :
        handleCreateBudget(templatesOk, writeOk)

NextTemplates ==
    \/ \E readOk, writeOk \in BOOLEAN : loadExpenses(readOk, writeOk)
    \/ \E id \in TemplateIds, writeOk \in BOOLEAN :
        handleAddExpense(id, writeOk)
    \/ \E id \in TemplateIds, editValues \in EditValues, writeOk \in BOOLEAN :
        handleUpdateExpense(id, editValues, writeOk)
    \/ \E id \in TemplateIds, writeOk \in BOOLEAN :
        handleDeleteExpense(id, writeOk)
    \/ \E id \in TemplateIds, writeOk \in BOOLEAN :
        handleCancelEdit(id, writeOk)
    \/ \E dragIndex, dropIndex \in 1..MaxTemplates, writeOk \in BOOLEAN :
        handleReorderExpenses(dragIndex, dropIndex, writeOk)
    \/ \E expense \in LocalStorageExpenses, writeOk \in BOOLEAN :
        migrateRecurringExpense(expense, writeOk)
    \/ Budgets_handleCreateBudget
    \/ \E id \in BudgetIds : deleteBudget(id)

SpecTemplates == InitTemplates /\ [][NextTemplates]_vars

(***************************************************************************)
(* Specification of the storage layer under sign-in and sign-out of two    *)
(* users                                                                   *)
(***************************************************************************)
InitAuth ==
    /\ now = StartInstant
    /\ counterDoc = NoDoc
    /\ pc = [p \in Procs |-> "idle"]
    /\ currentYear = [p \in Procs |-> 0]
    /\ txSnap = [p \in Procs |-> NoDoc]
    /\ txStale = [p \in Procs |-> FALSE]
    /\ allocs = <<>>
    /\ invoiceCounter = NoDoc
    /\ started = 0
    /\ pristine = TRUE
    /\ lastWrite = NoWrite
    /\ clients = {}
    /\ invoices = {}
    /\ budgets = {}
    /\ limitsDoc = NoLimits
    /\ budgetsState = {}
    /\ budgetLimit = 1
    /\ invoicesThisMonth = 0
    /\ invoiceLimit = 2
    /\ lastOp = NoOp
    /\ recurringExpenses = {}
    /\ expenses = <<>>
    /\ newlyCreatedId = Null
    /\ insertion = <<>>
    /\ currentUser = NoUser
    /\ db = {}
    /\ access = {}
    /\ result = NoResult
    /\ editingClient = NoClient
    /\ Clients_newlyCreatedId = Null
    /\ BudgetView_budget = NoBudget
    /\ BudgetView_totals = NoTotals
    /\ InvoiceEditor_id = NotMounted
    /\ InvoiceEditor_invoice = NoInvoice
    /\ request = NoRequest
    /\ Invoices_invoices = {}
    /\ emailModalData = NoModal
    /\ additionalCcEntries = <<>>
    /\ invoiceCcEmails = <<>>
    /\ ccRecipients = <<>>
    /\ Cc = <<>>
    /\ BudgetView_id = NotMounted
    /\ inflight = {}
    /\ appliedBudget = NoBudget
    /\ handlersBegun = 0
    /\ lastCall = NoCall
    /\ pageQuery = NoQuery
    /\ pageResult = NoPage
    /\ visited = <<>>
    /\ pagesRead = 0

NextAuth ==
    \/ \E user \in Users : signIn(user)
    \/ signOut
    \/ storage_getBudgets
    \/ storage_getBudget
    \/ storage_createBudget
    \/ storage_updateBudget
    \/ storage_deleteBudget
    \/ storage_getRecurringExpenses
    \/ storage_createRecurringExpense
    \/ storage_deleteRecurringExpense
    \/ billingStorage_getClients
    \/ billingStorage_getClientsCount
    \/ billingStorage_getClient
    \/ billingStorage_createClient
    \/ billingStorage_deleteClient
    \/ billingStorage_getInvoiceCounter
    \/ billingStorage_updateInvoiceCounter
    \/ billingStorage_getNextInvoiceNumber
    \/ billingStorage_getInvoices
    \/ billingStorage_getInvoicesCreatedThisMonthCount
    \/ superAdminStorage_getCurrentUserLimits

SpecAuth == InitAuth /\ [][NextAuth]_vars

(***************************************************************************)
(* Specification of the Clients page: add, edit, save, cancel, delete      *)
(***************************************************************************)
InitClients ==
    /\ now = StartInstant
    /\ counterDoc = NoDoc
    /\ pc = [p \in Procs |-> "idle"]
    /\ currentYear = [p \in Procs |-> 0]
    /\ txSnap = [p \in Procs |-> NoDoc]
    /\ txStale = [p \in Procs |-> FALSE]
    /\ allocs = <<>>
    /\ invoiceCounter = NoDoc
    /\ started = 0
    /\ pristine = TRUE
    /\ lastWrite = NoWrite
    /\ clients = {}
    /\ invoices = {}
    /\ budgets = {}
    /\ limitsDoc \in LimitsDocs
    /\ budgetsState = {}
    /\ budgetLimit = 1
    /\ invoicesThisMonth = 0
    /\ invoiceLimit = 2
    /\ lastOp = NoOp
    /\ recurringExpenses = {}
    /\ expenses = <<>>
    /\ newlyCreatedId = Null
    /\ insertion = <<>>
    /\ currentUser = "A"
    /\ db = {}
    /\ access = {}
    /\ result = NoResult
    /\ editingClient = NoClient
    /\ Clients_newlyCreatedId = Null
    /\ BudgetView_budget = NoBudget
    /\ BudgetView_totals = NoTotals
    /\ InvoiceEditor_id = NotMounted
    /\ InvoiceEditor_invoice = NoInvoice
    /\ request = NoRequest
    /\ Invoices_invoices = {}
    /\ emailModalData = NoModal
    /\ additionalCcEntries = <<>>
    /\ invoiceCcEmails = <<>>
    /\ ccRecipients = <<>>
    /\ Cc = <<>>
    /\ BudgetView_id = NotMounted
    /\ inflight = {}
    /\ appliedBudget = NoBudget
    /\ handlersBegun = 0
    /\ lastCall = NoCall
    /\ pageQuery = NoQuery
    /\ pageResult = NoPage
    /\ visited = <<>>
    /\ pagesRead = 0

NextClients ==
    \/ handleAddClient
    \/ \E client \in clients : handleEditClient(client)
    \/ \E name \in ClientNames, email \in ClientEmails,
          hourlyRate \in ClientRates :
        handleUpdateEditingClient(name, email, hourlyRate)
    \/ \E writeOk \in BOOLEAN : handleSaveEdit(writeOk)
    \/ \E writeOk \in BOOLEAN : Clients_handleCancelEdit(writeOk)
    \/ Clients_mount
    \/ \E id \in ClientIds : deleteClient(id)

SpecClients == InitClients /\ [][NextClients]_vars

(***************************************************************************)
(* Specification of the totals of the budget view                          *)
(***************************************************************************)
InitTotals ==
    /\ now = StartInstant
    /\ counterDoc = NoDoc
    /\ pc = [p \in Procs |-> "idle"]
    /\ currentYear = [p \in Procs |-> 0]
    /\ txSnap = [p \in Procs |-> NoDoc]
    /\ txStale = [p \in Procs |-> FALSE]
    /\ allocs = <<>>
    /\ invoiceCounter = NoDoc
    /\ started = 0
    /\ pristine = TRUE
    /\ lastWrite = NoWrite
    /\ clients = {}
    /\ invoices = {}
    /\ budgets \in
           {{[id |-> 1, dateCreated |-> StartInstant,
              startingAmount |-> startingAmount, lineItems |-> lineItems]} :
               startingAmount \in StartingAmounts,
               lineItems \in SeqsUpTo(ItemInputs, MaxItems)}
    /\ limitsDoc \in LimitsDocs
    /\ budgetsState = {}
    /\ budgetLimit = 1
    /\ invoicesThisMonth = 0
    /\ invoiceLimit = 2
    /\ lastOp = NoOp
    /\ recurringExpenses = {}
    /\ expenses = <<>>
    /\ newlyCreatedId = Null
    /\ insertion = <<>>
    /\ currentUser = "A"
    /\ db = {}
    /\ access = {}
    /\ result = NoResult
    /\ editingClient = NoClient
    /\ Clients_newlyCreatedId = Null
    /\ BudgetView_budget = NoBudget
    /\ BudgetView_totals = NoTotals
    /\ InvoiceEditor_id = NotMounted
    /\ InvoiceEditor_invoice = NoInvoice
    /\ request = NoRequest
    /\ Invoices_invoices = {}
    /\ emailModalData = NoModal
    /\ additionalCcEntries = <<>>
    /\ invoiceCcEmails = <<>>
    /\ ccRecipients = <<>>
    /\ Cc = <<>>
    /\ BudgetView_id = 1
    /\ inflight = {}
    /\ appliedBudget = NoBudget
    /\ handlersBegun = 0
    /\ lastCall = NoCall
    /\ pageQuery = NoQuery
    /\ pageResult = NoPage
    /\ visited = <<>>
    /\ pagesRead = 0


NextTotals == \E readOk \in BOOLEAN : loadBudget(readOk)

SpecTotals == InitTotals /\ [][NextTotals]_vars

(***************************************************************************)
(* Specification of the invoice editor: one client, no invoice stored, the *)
(* editor mounted for a new invoice or for a stored one                    *)
(***************************************************************************)
EditorClients ==
    {[id |-> 1, name |-> "Acme", email |-> "a@b.co", hourlyRate |-> 5]}

InitEditor ==
    /\ now = StartInstant
    /\ counterDoc = NoDoc
    /\ pc = [p \in Procs |-> "idle"]
    /\ currentYear = [p \in Procs |-> 0]
    /\ txSnap = [p \in Procs |-> NoDoc]
    /\ txStale = [p \in Procs |-> FALSE]
    /\ allocs = <<>>
    /\ invoiceCounter = NoDoc
    /\ started = 0
    /\ pristine = TRUE
    /\ lastWrite = NoWrite
    /\ clients = EditorClients
    /\ invoices = {}
    /\ budgets = {}
    /\ limitsDoc = NoLimits
    /\ budgetsState = {}
    /\ budgetLimit = 1
    /\ invoicesThisMonth = 0
    /\ invoiceLimit = 2
    /\ lastOp = NoOp
    /\ recurringExpenses = {}
    /\ expenses = <<>>
    /\ newlyCreatedId = Null
    /\ insertion = <<>>
    /\ currentUser = "A"
    /\ db = {}
    /\ access = {}
    /\ result = NoResult
    /\ editingClient = NoClient
    /\ Clients_newlyCreatedId = Null
    /\ BudgetView_budget = NoBudget
    /\ BudgetView_totals = NoTotals
    /\ InvoiceEditor_id = NotMounted
    /\ InvoiceEditor_invoice = NoInvoice
    /\ request = NoRequest
    /\ Invoices_invoices = {}
    /\ emailModalData = NoModal
    /\ additionalCcEntries = <<>>
    /\ invoiceCcEmails = <<>>
    /\ ccRecipients = <<>>
    /\ Cc = <<>>
    /\ BudgetView_id = NotMounted
    /\ inflight = {}
    /\ appliedBudget = NoBudget
    /\ handlersBegun = 0
    /\ lastCall = NoCall
    /\ pageQuery = NoQuery
    /\ pageResult = NoPage
    /\ visited = <<>>
    /\ pagesRead = 0

NextEditor ==
    \/ \E id \in IdsOf(invoices) \cup {Null}, readOk \in BOOLEAN :
        InvoiceEditor_loadData(id, readOk, 0)
    \/ \E clientId \in ClientIds : handleClientChange(clientId)
    \/ addLineItem
    \/ \E i \in 1..MaxItems, updates \in LineItemUpdates :
        updateLineItem(i, updates)
    \/ \E i \in 1..MaxItems : deleteLineItem(i)
    \/ \E txOk, writeOk \in BOOLEAN :
        Editor_handleSave(txOk, TRUE, TRUE, writeOk)
    \/ \E writeOk \in BOOLEAN : handleDelete(writeOk)
    \/ InvoiceEditor_cancel

SpecEditor == InitEditor /\ [][NextEditor]_vars

(***************************************************************************)
(* Specification of an invoice that gets paid: one draft invoice stored,   *)
(* the Invoices page and the editor of that invoice                        *)
(***************************************************************************)
StoredDraft ==
    [NoInvoice EXCEPT
         !.id = 1, !.dateCreated = StartInstant,
         !.dateDue = calculateDueDate(StartInstant), !.clientId = 1,
         !.lineItems = <<[description |-> "", hours |-> 0, rate |-> 5,
                          amount |-> Times(0, 5)]>>]

InitPaid ==
    /\ now = StartInstant
    /\ counterDoc = CounterDoc(StartYear, 1)
    /\ pc = [p \in Procs |-> "idle"]
    /\ currentYear = [p \in Procs |-> 0]
    /\ txSnap = [p \in Procs |-> NoDoc]
    /\ txStale = [p \in Procs |-> FALSE]
    /\ allocs = <<>>
    /\ invoiceCounter = NoDoc
    /\ started = 0
    /\ pristine = FALSE
    /\ lastWrite = NoWrite
    /\ clients = EditorClients
    /\ invoices = {StoredDraft}
    /\ budgets = {}
    /\ limitsDoc = NoLimits
    /\ budgetsState = {}
    /\ budgetLimit = 1
    /\ invoicesThisMonth = 0
    /\ invoiceLimit = 2
    /\ lastOp = NoOp
    /\ recurringExpenses = {}
    /\ expenses = <<>>
    /\ newlyCreatedId = Null
    /\ insertion = <<>>
    /\ currentUser = "A"
    /\ db = {}
    /\ access = {}
    /\ result = NoResult
    /\ editingClient = NoClient
    /\ Clients_newlyCreatedId = Null
    /\ BudgetView_budget = NoBudget
    /\ BudgetView_totals = NoTotals
    /\ InvoiceEditor_id = NotMounted
    /\ InvoiceEditor_invoice = NoInvoice
    /\ request = NoRequest
    /\ Invoices_invoices = {}
    /\ emailModalData = NoModal
    /\ additionalCcEntries = <<>>
    /\ invoiceCcEmails = <<>>
    /\ ccRecipients = <<>>
    /\ Cc = <<>>
    /\ BudgetView_id = NotMounted
    /\ inflight = {}
    /\ appliedBudget = NoBudget
    /\ handlersBegun = 0
    /\ lastCall = NoCall
    /\ pageQuery = NoQuery
    /\ pageResult = NoPage
    /\ visited = <<>>
    /\ pagesRead = 0

NextPaid ==
    \/ \E id \in IdsOf(invoices), readOk \in BOOLEAN :
        InvoiceEditor_loadData(id, readOk, 0)
    \/ \E clientId \in ClientIds : handleClientChange(clientId)
    \/ \E status \in InvoiceStatuses : handleStatusChange(status)
    \/ addLineItem
    \/ \E i \in 1..MaxItems, updates \in LineItemUpdates :
        updateLineItem(i, updates)
    \/ \E i \in 1..MaxItems : deleteLineItem(i)
    \/ \E writeOk \in BOOLEAN : Editor_handleSave(TRUE, TRUE, TRUE, writeOk)
    \/ \E writeOk \in BOOLEAN : handleDelete(writeOk)
    \/ InvoiceEditor_cancel
    \/ \E invoice \in invoices, writeOk \in BOOLEAN :
        handleMarkAsPaid(invoice, writeOk)
    \/ \E invoice \in invoices, sendOk, writeOk \in BOOLEAN :
        sendInvoiceEmail(invoice, sendOk, writeOk)

SpecPaid == InitPaid /\ [][NextPaid]_vars

(***************************************************************************)
(* Helpers of the properties: literal texts and a parser, written          *)
(* independently of toString / padStart.                                   *)
(***************************************************************************)
Digits == {"0", "1", "2", "3", "4", "5", "6", "7", "8", "9"}

YearText(y) ==
    CASE y = 2024 -> <<"2", "0", "2", "4">>
      [] y = 2025 -> <<"2", "0", "2", "5">>
      [] y = 2026 -> <<"2", "0", "2", "6">>
      [] y = 2027 -> <<"2", "0", "2", "7">>

\* INV-<y>-000k for a one-digit k
SmallNumberText(y, k) ==
    <<"I", "N", "V", "-">> \o YearText(y) \o <<"-", "0", "0", "0">>
        \o <<CHOOSE d \in Digits : DigitChar[k + 1] = d>>

DigitValue(d) == CHOOSE v \in 0..9 : DigitChar[v + 1] = d

RECURSIVE parseInt(_)
parseInt(s) ==
    IF Len(s) = 0 THEN 0
    ELSE 10 * parseInt(SubSeq(s, 1, Len(s) - 1)) + DigitValue(s[Len(s)])

\* the text after "INV-yyyy-"
SequencePart(s) == SubSeq(s, 10, Len(s))

LastAlloc == allocs[Len(allocs)]

\* a step in which the transaction of p commits
CommitStep(p) == pc[p] = "read" /\ pc'[p] = "idle"

(***************************************************************************)
(* C1  No two calls of getNextInvoiceNumber of one user ever return the    *)
(* same invoice number, whatever the history of allocations and of counter *)
(* values saved from the settings screen.                                  *)
(***************************************************************************)
C1_NoDuplicateNumbers ==
    \A i, j \in 1..Len(allocs) : i # j => allocs[i] # allocs[j]

(***************************************************************************)
(* C2  Starting with no counter document and with no counter saved from    *)
(* the settings screen, the calls made within one calendar year return     *)
(* INV-<year>-0001, -0002, ... in allocation order, without duplicate or   *)
(* gap, also when they run concurrently.                                   *)
(***************************************************************************)
C2_SequentialFromAbsent ==
    (pristine /\ getFullYear(now) = StartYear) =>
        \A k \in 1..Len(allocs) : allocs[k] = SmallNumberText(StartYear, k)

\* two numbers were handed out while a concurrent transaction, which had
\* read the counter before, was refused
C2_Witness ==
    /\ pristine
    /\ getFullYear(now) = StartYear
    /\ Len(allocs) >= 2
    /\ \E p \in Procs : pc[p] = "read" /\ txStale[p]

(***************************************************************************)
(* C3  Year rollover: a call made in year Y whose transaction reads the    *)
(* counter {year: Y-1, count: C} returns INV-<Y>-0001 and stores           *)
(* {year: Y, count: 1}, for every C.                                       *)
(***************************************************************************)
C3_YearRollover ==
    (/\ lastWrite.by = "transaction"
     /\ lastWrite.pre.exists
     /\ lastWrite.pre.year = lastWrite.cy - 1) =>
        /\ counterDoc = [exists |-> TRUE, year |-> lastWrite.cy, count |-> 1]
        /\ LastAlloc = SmallNumberText(lastWrite.cy, 1)

C3_Witness ==
    /\ lastWrite.by = "transaction"
    /\ lastWrite.pre.exists
    /\ lastWrite.pre.year = lastWrite.cy - 1
    /\ lastWrite.pre.count = 9999
    /\ counterDoc.count = 1

C5_OnlyTransaction ==
    [][counterDoc' # counterDoc => \E p \in Procs : CommitStep(p)]_vars

\* C5 as amended: the counter document is changed only by the commit of
\* the allocator's transaction or by handleSaveCounter, which stores the
\* year and count held by the settings screen
C5_OnlyTransactionOrSettings ==
    [][counterDoc' # counterDoc =>
        \/ \E p \in Procs :
            /\ CommitStep(p)
            /\ counterDoc' = nextCounter(counterDoc, currentYear[p])
        \/ /\ invoiceCounter.exists
           /\ invoiceCounter.count >= 0
           /\ counterDoc' = invoiceCounter
           /\ allocs' = allocs]_vars

\* the settings screen has overwritten a counter that a transaction wrote
C5_Witness ==
    /\ lastWrite.by = "settings"
    /\ Len(allocs) >= 1
    /\ counterDoc.exists
    /\ counterDoc = invoiceCounter

(***************************************************************************)
(* C6  Every returned invoice number is INV-<4-digit year>-<sequence>      *)
(* with a sequence part exactly 4 digits wide.                             *)
(***************************************************************************)
HasNumberShape(s) ==
    /\ Len(s) >= 10
    /\ SubSeq(s, 1, 4) = <<"I", "N", "V", "-">>
    /\ \A i \in 5..8 : s[i] \in Digits
    /\ s[9] = "-"
    /\ \A i \in 10..Len(s) : s[i] \in Digits

C6_SequenceWidth4 ==
    \A k \in 1..Len(allocs) :
        HasNumberShape(allocs[k]) /\ Len(SequencePart(allocs[k])) = 4

\* C6 as amended: the sequence part is at least 4 digits wide, zero-padded
\* to exactly 4 digits for counts up to 9999 and wider, without padding,
\* above
C6_SequenceWidthAtLeast4 ==
    \A k \in 1..Len(allocs) :
        LET seq == SequencePart(allocs[k]) IN
        /\ HasNumberShape(allocs[k])
        /\ Len(seq) >= 4
        /\ parseInt(seq) <= 9999 <=> Len(seq) = 4
        /\ Len(seq) > 4 => seq[1] # "0"

C6_Witness ==
    \E i, j \in 1..Len(allocs) :
        /\ Len(SequencePart(allocs[i])) = 4
        /\ Len(SequencePart(allocs[j])) = 5

(***************************************************************************)
(* Helpers of the plan-limit properties                                    *)
(***************************************************************************)
\* the step is an attempt of the named storage operation
Attempt(op) == lastOp'.op = op

UserData == <<clients, invoices, budgets, limitsDoc, counterDoc>>

\* the items of the calendar month of t, by year and month
CreatedInMonthOf(items, t) ==
    {item \in items :
        /\ getFullYear(item.dateCreated) = getFullYear(t)
        /\ getMonth(item.dateCreated) = getMonth(t)}

(***************************************************************************)
(* C7  Plan-limit gate: with limit L and exactly L qualifying items        *)
(* stored (clients in total, invoices created in the current month),       *)
(* createClient / createInvoice is rejected with the plan-limit error and  *)
(* writes nothing; with exactly L-1 stored it succeeds and the new item is *)
(* stored.  (The limits read and the write are taken to reach the          *)
(* backend.)                                                               *)
(***************************************************************************)
C7_PlanLimitGate ==
    [][/\ (Attempt("createClient") /\ lastOp'.io) =>
            LET L == getCurrentUserLimits.clients
                n == Cardinality(clients)
            IN  /\ n = L => lastOp'.outcome = "planLimit" /\ clients' = clients
                /\ n = L - 1 => /\ lastOp'.outcome = "ok"
                                /\ clients \subseteq clients'
                                /\ Cardinality(clients') = n + 1
       /\ (Attempt("createInvoice") /\ lastOp'.io) =>
            LET L == getCurrentUserLimits.invoicesPerMonth
                n == Cardinality(CreatedInMonthOf(invoices, now))
            IN  /\ n = L => /\ lastOp'.outcome = "planLimit"
                            /\ invoices' = invoices
                /\ n = L - 1 => /\ lastOp'.outcome = "ok"
                                /\ invoices \subseteq invoices'
                                /\ Cardinality(invoices') =
                                       Cardinality(invoices) + 1
      ]_vars

(***************************************************************************)
(* C8  A create rejected with the plan-limit condition is never partially  *)
(* applied: the user's stored data (all documents and the invoice counter) *)
(* is the same after the rejection as before the attempt.                  *)
(***************************************************************************)
C8_RejectionLeavesDataUnchanged ==
    [][lastOp'.outcome = "planLimit" =>
            UserData' = UserData]_vars

(***************************************************************************)
(* C9  Every monthly-scoped quota count (invoices and budgets) counts      *)
(* exactly the items whose dateCreated lies in the current calendar month, *)
(* [monthStart, nextMonthStart): the last instant of month M counts in M,  *)
(* the first instant of M+1 does not, also from December to January.       *)
(***************************************************************************)
C9_MonthlyCounts ==
    /\ countItemsCreatedThisMonth(invoices, now) =
           Cardinality(CreatedInMonthOf(invoices, now))
    /\ countItemsCreatedThisMonth(budgets, now) =
           Cardinality(CreatedInMonthOf(budgets, now))
    /\ getInvoicesCreatedThisMonthCount(TRUE, TRUE) =
           Cardinality(CreatedInMonthOf(invoices, now))

(***************************************************************************)
(* C10  Whenever the user already has budgetsPerMonth budgets created in   *)
(* the current calendar month, every budget creation is rejected before    *)
(* the write and no budget document is added.                              *)
(***************************************************************************)
C10_BudgetLimitEnforced ==
    [][Cardinality(CreatedInMonthOf(budgets, now)) >=
            getCurrentUserLimits.budgetsPerMonth
        => budgets' \subseteq budgets]_vars

(***************************************************************************)
(* C11  Creating a recurring expense template is checked against the       *)
(* recurringTemplates limit: while the user has that many templates, no    *)
(* step stores a template with a new id.                                   *)
(***************************************************************************)
C11_TemplateLimitEnforced ==
    [][Cardinality(recurringExpenses)
           >= getCurrentUserLimits.recurringTemplates
       => IdsOf(recurringExpenses') \subseteq IdsOf(recurringExpenses)]_vars

\* the sequences that list every element of a set once
Listings(S) ==
    {f \in [1..Cardinality(S) -> S] :
        \A i, j \in 1..Cardinality(S) : i # j => f[i] # f[j]}

\* a template's place: its order, a template without order behind the rest
PlaceOf(e) == IF e.order = Null THEN MaxTemplates + 1 ELSE e.order

ExpectedStatus(e) ==
    CASE e.amount = 0 -> "complete"
      [] e.amount # 0 /\ e.isAutomatic -> "automatic"
      [] OTHER -> "incomplete"

\* an absent link or note of a template is an empty one of the line item
SameText(itemText, templateText) ==
    \/ itemText = templateText
    \/ templateText = Undefined /\ itemText = ""

CopiedFrom(item, e) ==
    /\ item.amount = e.amount
    /\ item.name = e.name
    /\ SameText(item.link, e.link)
    /\ SameText(item.note, e.note)
    /\ item.status = ExpectedStatus(e)

\* the budget a step has stored
NewBudgets == {b \in budgets' : b.id \notin IdsOf(budgets)}

(***************************************************************************)
(* C16  A budget created while N templates are stored has exactly N line   *)
(* items, in the order of the templates, each with the amount, name, link  *)
(* and note of its template and with status complete for amount 0,         *)
(* automatic for a non-zero amount with isAutomatic, incomplete otherwise. *)
(***************************************************************************)
C16_BudgetFromTemplates ==
    [][\A b \in NewBudgets :
        /\ Len(b.lineItems) = Cardinality(recurringExpenses)
        /\ \E f \in Listings(recurringExpenses) :
            /\ \A i, j \in 1..Len(b.lineItems) :
                   i < j => PlaceOf(f[i]) <= PlaceOf(f[j])
            /\ \A i \in 1..Len(b.lineItems) : CopiedFrom(b.lineItems[i], f[i])
      ]_vars

(***************************************************************************)
(* C17  The line items of a stored budget are a snapshot: a step that      *)
(* edits, reorders, adds or deletes a recurring template leaves every      *)
(* stored budget, line items included, unchanged.                          *)
(***************************************************************************)
C17_SnapshotIndependent ==
    [][recurringExpenses' # recurringExpenses => budgets' = budgets]_vars

\* a budget holds a line item copied from a template that has since been
\* edited or deleted
C17_Witness ==
    \E b \in budgets :
        /\ Len(b.lineItems) > 0
        /\ \A e \in recurringExpenses :
               \A i \in 1..Len(b.lineItems) : ~CopiedFrom(b.lineItems[i], e)
        /\ expenses # <<>>

PositionIn(seq, x) == CHOOSE i \in 1..Len(seq) : seq[i] = x

(***************************************************************************)
(* C18  getRecurringExpenses lists every stored template once; of two      *)
(* templates that carry an order the one of smaller order comes first, and *)
(* of two of equal order the one inserted first.                           *)
(***************************************************************************)
C18_StableTotalOrder ==
    LET listed == getRecurringExpenses(TRUE)
    IN  /\ Len(listed) = Cardinality(recurringExpenses)
        /\ {listed[i] : i \in 1..Len(listed)} = recurringExpenses
        /\ \A i, j \in 1..Len(listed) :
               i < j /\ listed[i].order # Null /\ listed[j].order # Null =>
                   \/ PlaceOf(listed[i]) < PlaceOf(listed[j])
                   \/ /\ PlaceOf(listed[i]) = PlaceOf(listed[j])
                      /\ PositionIn(insertion, listed[i].id)
                             < PositionIn(insertion, listed[j].id)

(***************************************************************************)
(* C12  Every operation of the storage layer invoked while no user is      *)
(* signed in throws the unauthenticated error; none returns a value.       *)
(***************************************************************************)
C12_UnauthenticatedFails ==
    [][currentUser = NoUser /\ result'.op # "none"
       => result' = Thrown(result'.op, "unauthenticated")]_vars

IsUnder(path, user) ==
    /\ Len(path) >= 2
    /\ path[1] = "users"
    /\ path[2] = user

IsEmail(text) == text \in {"a@b.co"}

(***************************************************************************)
(* C14  No client with a missing required field (name, email), an invalid  *)
(* email or a negative rate is ever in storage: validation comes before    *)
(* every write.                                                            *)
(***************************************************************************)
C14_OnlyValidClientsStored ==
    \A c \in clients :
        /\ c.name # ""
        /\ c.email # ""
        /\ IsEmail(c.email)
        /\ ~(c.hourlyRate < 0)

\* the exact sum of the amounts of the items
RECURSIVE SumOfAmounts(_)
SumOfAmounts(items) ==
    IF items = <<>> THEN 0
    ELSE Head(items).amount + SumOfAmounts(Tail(items))

SumWhere(items, Keep(_)) == SumOfAmounts(SelectSeq(items, Keep))

IsUnmarked(item) == ~item.isMarked
IsMarked(item) == item.isMarked
IsAny(item) == TRUE

TotalsAsSums ==
    LET b == BudgetView_budget
        t == BudgetView_totals
    IN  /\ t.unmarkedTotal = b.startingAmount + SumWhere(b.lineItems, IsUnmarked)
        /\ t.finalTotal = b.startingAmount + SumWhere(b.lineItems, IsAny)
        /\ t.finalTotal - t.unmarkedTotal = SumWhere(b.lineItems, IsMarked)

\* the amounts added as numbers, first to last
RECURSIVE NumberSum(_, _)
NumberSum(items, n) ==
    IF n = 0 THEN 0 ELSE RoundToNearestEven(NumberSum(items, n - 1) + items[n].amount)

NumberSumWhere(items, Keep(_)) ==
    LET kept == SelectSeq(items, Keep) IN NumberSum(kept, Len(kept))

\* the first two equalities, the sums being sums of numbers
TotalsAsNumberSums ==
    LET b == BudgetView_budget
        t == BudgetView_totals
    IN  /\ t.unmarkedTotal =
               RoundToNearestEven(b.startingAmount
                                      + NumberSumWhere(b.lineItems, IsUnmarked))
        /\ t.finalTotal =
               RoundToNearestEven(b.startingAmount
                                      + NumberSumWhere(b.lineItems, IsAny))

(***************************************************************************)
(* C15  For every budget the computed unmarkedTotal is startingAmount plus *)
(* the sum of the unmarked amounts, finalTotal is startingAmount plus the  *)
(* sum of all amounts, and finalTotal - unmarkedTotal is the sum of the    *)
(* marked amounts (sums and difference taken as the program's numbers).    *)
(***************************************************************************)
C15_Totals ==
    BudgetView_budget.loaded /\ BudgetView_totals.computed =>
        /\ TotalsAsNumberSums
        /\ RoundToNearestEven(BudgetView_totals.finalTotal
                                  - BudgetView_totals.unmarkedTotal)
               = NumberSumWhere(BudgetView_budget.lineItems, IsMarked)

\* a number that has at most MantissaBits significant bits
Representable(x) ==
    \E m \in 0..(2 ^ MantissaBits - 1), e \in 0..MantissaBits :
        Abs(x) = m * 2 ^ e

\* every sum the computation forms, taken exactly, is a number
SumsAreExact ==
    LET b == BudgetView_budget
        unmarked == SelectSeq(b.lineItems, IsUnmarked)
    IN  /\ \A n \in 0..Len(b.lineItems) :
               Representable(SumWhere(SubSeq(b.lineItems, 1, n), IsAny))
        /\ \A n \in 0..Len(unmarked) :
               Representable(SumWhere(SubSeq(unmarked, 1, n), IsAny))
        /\ Representable(b.startingAmount + SumWhere(b.lineItems, IsAny))
        /\ Representable(b.startingAmount + SumWhere(unmarked, IsAny))

(***************************************************************************)
(* C15 as amended: the two totals are those sums of numbers; when no       *)
(* addition rounds they are the exact sums and their difference is the     *)
(* sum of the marked amounts.                                              *)
(***************************************************************************)
C15_TotalsWhenExact ==
    BudgetView_budget.loaded /\ BudgetView_totals.computed =>
        /\ TotalsAsNumberSums
        /\ SumsAreExact => TotalsAsSums

\* totals computed for a budget with a marked and an unmarked item
C15_Witness ==
    /\ BudgetView_budget.loaded
    /\ BudgetView_totals.computed
    /\ SumsAreExact
    /\ \E i, j \in 1..Len(BudgetView_budget.lineItems) :
        /\ BudgetView_budget.lineItems[i].isMarked
        /\ ~BudgetView_budget.lineItems[j].isMarked
    /\ BudgetView_totals.finalTotal # BudgetView_totals.unmarkedTotal

\* amount = hours * rate on every line and total = the sum of the amounts,
\* product and sum being the program's numbers
LinesAndTotalAgree(invoice) ==
    /\ \A i \in 1..Len(invoice.lineItems) :
        invoice.lineItems[i].amount =
            RoundToNearestEven(invoice.lineItems[i].hours
                                   * invoice.lineItems[i].rate)
    /\ invoice.total = NumberSum(invoice.lineItems, Len(invoice.lineItems))

(***************************************************************************)
(* C19  After any sequence of editor operations (the load, with the copy   *)
(* from the last invoice, add, update and delete of a line item) the       *)
(* invoice held by the editor and every invoice saved has amount = hours * *)
(* rate on every line item and total = the sum of the line-item amounts.   *)
(***************************************************************************)
C19_AmountsAndTotal ==
    /\ Mounted => LinesAndTotalAgree(InvoiceEditor_invoice)
    /\ \A inv \in invoices : LinesAndTotalAgree(inv)

\* a new invoice copied from the last one, a line added and its hours
\* typed, while an invoice of two lines with a total is stored
C19_Witness ==
    /\ InvoiceEditor_id = Null
    /\ Len(InvoiceEditor_invoice.lineItems) = 2
    /\ InvoiceEditor_invoice.lineItems[1].amount # 0
    /\ InvoiceEditor_invoice.lineItems[2].amount # 0
    /\ \E inv \in invoices :
        /\ Len(inv.lineItems) = 1
        /\ inv.total # 0
        /\ inv.lineItems[1] = InvoiceEditor_invoice.lineItems[1]
    /\ \E inv \in invoices : Len(inv.lineItems) = 2 /\ inv.total # 0

(***************************************************************************)
(* C20  Once the stored status of an invoice is paid, no action of the UI  *)
(* modifies the stored invoice: every step leaves it stored as it was.     *)
(***************************************************************************)
C20_PaidImmutable ==
    [][\A inv \in invoices : inv.status = "paid" => inv \in invoices']_vars

(***************************************************************************)
(* C30  The plan-limit gate fails closed: createClient and createInvoice   *)
(* write only after the count of existing items has been read, so a create *)
(* that succeeds finds fewer items stored than the limit; a failed count   *)
(* read never lets it proceed as though the count were 0.                  *)
(***************************************************************************)
C30_GateFailsClosed ==
    [][/\ (Attempt("createClient") /\ lastOp'.outcome = "ok") =>
            Cardinality(clients) < getCurrentUserLimits.clients
       /\ (Attempt("createInvoice") /\ lastOp'.outcome = "ok") =>
            Cardinality(CreatedInMonthOf(invoices, now))
                < getCurrentUserLimits.invoicesPerMonth
      ]_vars

(***************************************************************************)
(* The callable functions of the administration (functions/src/index.ts).  *)
(* request records who calls; access the documents and directories the     *)
(* call touched; db the documents that exist afterwards.                   *)
(***************************************************************************)
SUPER_ADMIN_EMAILS == {"sblnog@gmail.com"}

\* String.prototype.toLowerCase, over the addresses the callers present
toLowerCase(s) ==
    CASE s = "SBLNOG@gmail.com" -> "sblnog@gmail.com"
      [] s = "Eve@X.co" -> "eve@x.co"
      [] s = "A@B.co" -> "a@b.co"
      [] s = "Owner@x.co" -> "owner@x.co"
      [] s = "OWNER@x.co" -> "owner@x.co"
      [] s = "Paid" -> "paid"
      [] s = "PAID" -> "paid"
      [] OTHER -> s

\* request.auth and request.auth.token.email ("" when the token has none)
Callers ==
    {[auth |-> FALSE, email |-> ""]} \cup
    [auth : {TRUE},
     email : {"", "sblnog@gmail.com", "SBLNOG@gmail.com", "eve@x.co",
              "Eve@X.co"}]

\* request.data of updateSuperAdminClientLimits: uid "" and plan "" stand
\* for a missing field, clients Null for a field left to the plan's default
Payloads ==
    [uid : {""} \cup Users, plan : {"", "Free"}, clients : {Null, 3, 0 - 5}]

UserDirectory == <<"auth", "users">>

\* variant: every signed-in caller passes
assertSuperAdmin_AnyUser(req) == ~req.auth

\* TRUE when assertSuperAdmin throws permission-denied
assertSuperAdmin(req) ==
    LET email == IF req.auth THEN toLowerCase(req.email) ELSE ""
    IN  email = "" \/ email \notin SUPER_ADMIN_EMAILS

adminFrame == <<currentUser, now, counterDoc, allocVars, settingsVars, pristine,
                lastWrite, storeVars, pageVars, lastOp, templateVars,
                clientPageVars, budgetViewVars, editorVars, mailVars,
                writeVars, pagingVars>>

Called(req, op) == [auth |-> req.auth, email |-> req.email, op |-> op]

denied(op) ==
    /\ result' = Thrown(op, "permission-denied")
    /\ access' = {}
    /\ db' = db

superAdminAccessPing(req) ==
    /\ request' = Called(req, "superAdminAccessPing")
    /\ IF assertSuperAdmin(req)
       THEN denied("superAdminAccessPing")
       ELSE /\ result' = Returned("superAdminAccessPing", "ok")
            /\ access' = {}
            /\ db' = db
    /\ UNCHANGED adminFrame

\* listUsers, then five reads under users/<uid> for every user
getSuperAdminClients(req, ok) ==
    /\ request' = Called(req, "getSuperAdminClients")
    /\ IF assertSuperAdmin(req)
       THEN denied("getSuperAdminClients")
       ELSE /\ access' = {UserDirectory} \cup
                   {userPath(uid, suffix) :
                       uid \in Users,
                       suffix \in {<<"clients">>, <<"invoices">>,
                                   <<"budgets">>, <<"recurringExpenses">>,
                                   <<"settings", "limits">>}}
            /\ result' = IF ok THEN Returned("getSuperAdminClients", "data")
                         ELSE Thrown("getSuperAdminClients", "internal")
            /\ db' = db
    /\ UNCHANGED adminFrame

getSuperAdminDashboardStats(req, ok) ==
    /\ request' = Called(req, "getSuperAdminDashboardStats")
    /\ IF assertSuperAdmin(req)
       THEN denied("getSuperAdminDashboardStats")
       ELSE /\ access' = {UserDirectory}
            /\ result' =
                   IF ok THEN Returned("getSuperAdminDashboardStats", "data")
                   ELSE Thrown("getSuperAdminDashboardStats", "internal")
            /\ db' = db
    /\ UNCHANGED adminFrame

updateSuperAdminClientLimits(req, payload, ok) ==
    LET op == "updateSuperAdminClientLimits"
        path == userPath(payload.uid, <<"settings", "limits">>)
    IN  /\ request' = Called(req, op)
        /\ IF assertSuperAdmin(req)
           THEN denied(op)
           ELSE IF payload.uid = "" \/ payload.plan = ""
                   \/ (payload.clients # Null /\ payload.clients < 0)
           THEN /\ result' = Thrown(op, "invalid-argument")
                /\ access' = {}
                /\ db' = db
           ELSE /\ access' = {path}
                /\ db' = IF ok THEN db \cup {path} ELSE db
                /\ result' = IF ok THEN Returned(op, "success")
                             ELSE Thrown(op, "internal")
        /\ UNCHANGED adminFrame

InitAdmin == InitAuth

NextAdmin ==
    \/ \E user \in Users : signIn(user)
    \/ signOut
    \/ storage_createBudget
    \/ storage_deleteBudget
    \/ \E req \in Callers : superAdminAccessPing(req)
    \/ \E req \in Callers, ok \in BOOLEAN : getSuperAdminClients(req, ok)
    \/ \E req \in Callers, ok \in BOOLEAN :
           getSuperAdminDashboardStats(req, ok)
    \/ \E req \in Callers, payload \in Payloads, ok \in BOOLEAN :
           updateSuperAdminClientLimits(req, payload, ok)

SpecAdmin == InitAdmin /\ [][NextAdmin]_vars

AdminOps == {"superAdminAccessPing", "getSuperAdminClients",
             "getSuperAdminDashboardStats", "updateSuperAdminClientLimits"}

\* the caller of the step's administrative call is on the allow-list
AllowListed(req) ==
    req.auth /\ req.email # "" /\ toLowerCase(req.email) \in SUPER_ADMIN_EMAILS

\* C23: every call of an administrative endpoint by a caller whose
\* authenticated email is not on the allow-list (unauthenticated callers and
\* callers without an email included) is rejected with permission-denied,
\* and the call has read nothing and written nothing.
C23_AdminDenied ==
    [][(request'.op \in AdminOps /\ result'.op = request'.op
            /\ ~AllowListed(request'))
        => /\ result' = Thrown(request'.op, "permission-denied")
           /\ access' = {}
           /\ db' = db]_vars

\* a signed-in caller who is not on the list was turned away from the
\* update of a client's limits
C23_Witness ==
    /\ request = Called([auth |-> TRUE, email |-> "eve@x.co"],
                        "updateSuperAdminClientLimits")
    /\ result = Thrown("updateSuperAdminClientLimits", "permission-denied")
    /\ access = {}

(***************************************************************************)
(* Invoices page and its email modal (Invoices.tsx, EmailPreviewModal.tsx, *)
(* emailService.ts): the page holds the list it loaded, the modal the      *)
(* invoice, client and company it was opened with.                         *)
(***************************************************************************)
maxCcRecipients == 3
defaultCcEmail == trim(emailModalData.company.email)
maxAdditionalCcRecipients ==
    IF defaultCcEmail # "" THEN maxCcRecipients - 1 ELSE maxCcRecipients

\* /\S+@\S+\.\S+/.test(email), over the texts typed
emailRegex(email) ==
    email \in {"a@b.co", "A@B.co", "c@d.co", "OWNER@x.co", "Owner@x.co",
               "owner@x.co"}

\* what the user types into a cc field
CcInputs == {"bad", "a@b.co", " A@B.co", "c@d.co", "OWNER@x.co"}
\* company.email of the settings
CompanyEmails == {" ", "Owner@x.co "}

\* Array.from(new Set(list)): the first occurrence of every text, in order
RECURSIVE unique(_)
unique(list) ==
    IF list = <<>> THEN <<>>
    ELSE LET rest == unique(SubSeq(list, 1, Len(list) - 1))
             last == list[Len(list)]
         IN  IF \E i \in 1..Len(rest) : rest[i] = last THEN rest
             ELSE Append(rest, last)

\* variant: the Set is built from the texts as typed
lowered_AsTyped(list) == list

\* list.map((email) => email.toLowerCase())
lowered(list) == [i \in DOMAIN list |-> toLowerCase(list[i])]
trimmed(list) == [i \in DOMAIN list |-> trim(list[i])]

\* list.slice(0, n)
slice(list, n) == SubSeq(list, 1, IF Len(list) < n THEN Len(list) ELSE n)

\* defaultCcEmail && email.toLowerCase() === defaultCcEmail.toLowerCase()
isDefaultCc(email, default) ==
    default # "" /\ toLowerCase(email) = toLowerCase(default)

\* a.sort().join(',') === b.sort().join(','), for lists of addresses
sameJoined(a, b) ==
    /\ Len(a) = Len(b)
    /\ \A x \in {a[i] : i \in DOMAIN a} \cup {b[i] : i \in DOMAIN b} :
           Cardinality({i \in DOMAIN a : a[i] = x})
               = Cardinality({i \in DOMAIN b : b[i] = x})

mailFrame == <<now, counterDoc, allocVars, settingsVars, pristine, lastWrite,
               clients, budgets, limitsDoc, templateVars, authVars,
               clientPageVars, budgetViewVars, editorVars, adminVars,
               writeVars, pagingVars>>

ModalOpen == emailModalData # NoModal

\* mount of the Invoices page and handleEmailSent
loadedInvoices(readOk, limitsOk) ==
    IF limitsOk THEN getInvoices(readOk) ELSE {}
loadInvoices(readOk, limitsOk) ==
    /\ ~ModalOpen
    /\ Invoices_invoices' = loadedInvoices(readOk, limitsOk)
    /\ invoiceLimit' = IF limitsOk THEN getCurrentUserLimits.invoicesPerMonth
                       ELSE invoiceLimit
    /\ invoicesThisMonth' = countItemsCreatedThisMonth(Invoices_invoices', now)
    /\ lastOp' = NoOp
    /\ UNCHANGED <<invoices, emailModalData, additionalCcEntries,
                   invoiceCcEmails, ccRecipients, Cc, budgetsState,
                   budgetLimit, mailFrame>>

\* useState(() => ...) of additionalCcEntries
initialCcEntries(client, default) ==
    LET kept == SelectSeq(trimmed(client.invoiceCcEmails),
                          LAMBDA email :
                              email # "" /\ ~isDefaultCc(email, default))
    IN  slice(unique(kept),
              IF default # "" THEN maxCcRecipients - 1 ELSE maxCcRecipients)

\* Send Email of a row: the modal gets the row's invoice, the stored client
\* and the company settings
handleSendEmail(invoice, companyEmail, clientOk) ==
    /\ ~ModalOpen
    /\ invoice \in Invoices_invoices
    /\ IF companyEmail = "" \/ ~clientOk
       THEN /\ lastOp' = Op("handleSendEmail", "alert", FALSE)
            /\ UNCHANGED <<emailModalData, additionalCcEntries>>
       ELSE /\ emailModalData' =
                   [invoice |-> invoice,
                    client |-> [invoiceCcEmails |-> invoiceCcEmails],
                    company |-> [email |-> companyEmail]]
            /\ additionalCcEntries' =
                   initialCcEntries(emailModalData'.client,
                                    trim(companyEmail))
            /\ lastOp' = NoOp
    /\ ccRecipients' = <<>>
    /\ Cc' = <<>>
    /\ UNCHANGED <<invoices, Invoices_invoices, invoiceCcEmails, pageVars,
                   mailFrame>>

modalFrame == <<invoices, Invoices_invoices, emailModalData, invoiceCcEmails,
                ccRecipients, Cc, pageVars, mailFrame>>

\* the cc fields: add one, type into one, remove one
addCc ==
    /\ ModalOpen
    /\ Len(additionalCcEntries) < maxAdditionalCcRecipients
    /\ additionalCcEntries' = Append(additionalCcEntries, "")
    /\ lastOp' = NoOp
    /\ UNCHANGED modalFrame
changeCc(i, email) ==
    /\ ModalOpen
    /\ i \in DOMAIN additionalCcEntries
    /\ additionalCcEntries' = [additionalCcEntries EXCEPT ![i] = email]
    /\ lastOp' = NoOp
    /\ UNCHANGED modalFrame
removeCc(i) ==
    /\ ModalOpen
    /\ i \in DOMAIN additionalCcEntries
    /\ additionalCcEntries' =
           [j \in 1..(Len(additionalCcEntries) - 1) |->
               IF j < i THEN additionalCcEntries[j]
               ELSE additionalCcEntries[j + 1]]
    /\ lastOp' = NoOp
    /\ UNCHANGED modalFrame

\* onClose
closeModal ==
    /\ ModalOpen
    /\ emailModalData' = NoModal
    /\ additionalCcEntries' = <<>>
    /\ lastOp' = NoOp
    /\ UNCHANGED <<invoices, Invoices_invoices, invoiceCcEmails, ccRecipients,
                   Cc, pageVars, mailFrame>>

\* the lists handleSend computes from the cc fields
cleanedAdditionalCc ==
    SelectSeq(trimmed(additionalCcEntries), LAMBDA email : email # "")
uniqueAdditionalCc ==
    slice(unique(lowered(
              SelectSeq(cleanedAdditionalCc,
                        LAMBDA email : ~isDefaultCc(email, defaultCcEmail)))),
          maxAdditionalCcRecipients)
handleSend_ccRecipients ==
    IF defaultCcEmail # "" THEN <<defaultCcEmail>> \o uniqueAdditionalCc
    ELSE uniqueAdditionalCc

\* Send of the modal.  pdfOk: the PDF was made; clientOk: updateClient
\* wrote; sendOk: the company email is set and the callable sent the mail;
\* writeOk: updateInvoice wrote; readOk, limitsOk: the reads of the reload.
\* sendInvoiceEmail takes four parameters, so the cc list passed as the
\* fifth argument is not in the callable's payload and the mail has no Cc.
handleSend(pdfOk, clientOk, sendOk, writeOk, readOk, limitsOk) ==
    LET invoice == emailModalData.invoice
        invalid == \E i \in DOMAIN cleanedAdditionalCc :
                       ~emailRegex(cleanedAdditionalCc[i])
        tooMany == Len(handleSend_ccRecipients) > maxCcRecipients
        changed == ~sameJoined(lowered(SelectSeq(
                                   trimmed(emailModalData.client.invoiceCcEmails),
                                   LAMBDA email : email # "")),
                               lowered(trimmed(uniqueAdditionalCc)))
        clientWritten == pdfOk /\ changed /\ clientOk
        called == pdfOk /\ (changed => clientOk)
        mailed == called /\ sendOk
        stored == mailed /\ writeOk /\ canUpdateInvoice(invoice)
    IN  /\ ModalOpen
        /\ IF invalid \/ tooMany
           THEN /\ lastOp' = Op("handleSend", "alert", FALSE)
                /\ UNCHANGED <<invoices, Invoices_invoices, emailModalData,
                               additionalCcEntries, invoiceCcEmails,
                               ccRecipients, Cc, pageVars>>
           ELSE /\ invoiceCcEmails' = IF clientWritten THEN uniqueAdditionalCc
                                      ELSE invoiceCcEmails
                /\ ccRecipients' = IF called THEN handleSend_ccRecipients
                                   ELSE ccRecipients
                /\ Cc' = IF mailed THEN <<>> ELSE Cc
                /\ invoices' = IF stored
                               THEN updateInvoice(sentInvoice(invoice))
                               ELSE invoices
                /\ lastOp' = Op("sendInvoiceEmail",
                                IF stored THEN "ok" ELSE "error", stored)
                /\ IF stored
                   THEN /\ emailModalData' = NoModal
                        /\ additionalCcEntries' = <<>>
                        /\ Invoices_invoices' =
                               IF limitsOk
                               THEN (IF readOk THEN invoices' ELSE {})
                               ELSE {}
                        /\ invoiceLimit' =
                               IF limitsOk
                               THEN getCurrentUserLimits.invoicesPerMonth
                               ELSE invoiceLimit
                        /\ invoicesThisMonth' =
                               countItemsCreatedThisMonth(Invoices_invoices',
                                                          now)
                        /\ UNCHANGED <<budgetsState, budgetLimit>>
                   ELSE UNCHANGED <<emailModalData, additionalCcEntries,
                                    Invoices_invoices, pageVars>>
        /\ UNCHANGED mailFrame

(***************************************************************************)
(* Specification of the Invoices page with its email modal, next to a      *)
(* second session that marks invoices as paid                              *)
(***************************************************************************)
InitSend ==
    /\ now = StartInstant
    /\ counterDoc = CounterDoc(StartYear, 1)
    /\ pc = [p \in Procs |-> "idle"]
    /\ currentYear = [p \in Procs |-> 0]
    /\ txSnap = [p \in Procs |-> NoDoc]
    /\ txStale = [p \in Procs |-> FALSE]
    /\ allocs = <<>>
    /\ invoiceCounter = NoDoc
    /\ started = 0
    /\ pristine = FALSE
    /\ lastWrite = NoWrite
    /\ clients = EditorClients
    /\ invoices = {StoredDraft}
    /\ budgets = {}
    /\ limitsDoc = NoLimits
    /\ budgetsState = {}
    /\ budgetLimit = 1
    /\ invoicesThisMonth = 0
    /\ invoiceLimit = 2
    /\ lastOp = NoOp
    /\ recurringExpenses = {}
    /\ expenses = <<>>
    /\ newlyCreatedId = Null
    /\ insertion = <<>>
    /\ currentUser = "A"
    /\ db = {}
    /\ access = {}
    /\ result = NoResult
    /\ editingClient = NoClient
    /\ Clients_newlyCreatedId = Null
    /\ BudgetView_budget = NoBudget
    /\ BudgetView_totals = NoTotals
    /\ InvoiceEditor_id = NotMounted
    /\ InvoiceEditor_invoice = NoInvoice
    /\ request = NoRequest
    /\ Invoices_invoices = {}
    /\ emailModalData = NoModal
    /\ additionalCcEntries = <<>>
    /\ invoiceCcEmails = <<>>
    /\ ccRecipients = <<>>
    /\ Cc = <<>>
    /\ BudgetView_id = NotMounted
    /\ inflight = {}
    /\ appliedBudget = NoBudget
    /\ handlersBegun = 0
    /\ lastCall = NoCall
    /\ pageQuery = NoQuery
    /\ pageResult = NoPage
    /\ visited = <<>>
    /\ pagesRead = 0

NextSend ==
    \/ Tick
    \/ \E readOk, limitsOk \in BOOLEAN : loadInvoices(readOk, limitsOk)
    \/ \E invoice \in Invoices_invoices, clientOk \in BOOLEAN :
        handleSendEmail(invoice, "Owner@x.co ", clientOk)
    \/ closeModal
    \/ \E clientOk, sendOk, writeOk, readOk \in BOOLEAN :
        handleSend(TRUE, clientOk, sendOk, writeOk, readOk, TRUE)
    \/ \E invoice \in invoices, writeOk \in BOOLEAN :
        handleMarkAsPaid(invoice, writeOk)

SpecSend == InitSend /\ [][NextSend]_vars

(***************************************************************************)
(* Specification of the email modal: the cc fields and Send                *)
(***************************************************************************)
InitCc ==
    /\ now = StartInstant
    /\ counterDoc = CounterDoc(StartYear, 1)
    /\ pc = [p \in Procs |-> "idle"]
    /\ currentYear = [p \in Procs |-> 0]
    /\ txSnap = [p \in Procs |-> NoDoc]
    /\ txStale = [p \in Procs |-> FALSE]
    /\ allocs = <<>>
    /\ invoiceCounter = NoDoc
    /\ started = 0
    /\ pristine = FALSE
    /\ lastWrite = NoWrite
    /\ clients = EditorClients
    /\ invoices = {StoredDraft}
    /\ budgets = {}
    /\ limitsDoc = NoLimits
    /\ budgetsState = {}
    /\ budgetLimit = 1
    /\ invoicesThisMonth = 0
    /\ invoiceLimit = 2
    /\ lastOp = NoOp
    /\ recurringExpenses = {}
    /\ expenses = <<>>
    /\ newlyCreatedId = Null
    /\ insertion = <<>>
    /\ currentUser = "A"
    /\ db = {}
    /\ access = {}
    /\ result = NoResult
    /\ editingClient = NoClient
    /\ Clients_newlyCreatedId = Null
    /\ BudgetView_budget = NoBudget
    /\ BudgetView_totals = NoTotals
    /\ InvoiceEditor_id = NotMounted
    /\ InvoiceEditor_invoice = NoInvoice
    /\ request = NoRequest
    /\ Invoices_invoices = {}
    /\ emailModalData = NoModal
    /\ additionalCcEntries = <<>>
    /\ invoiceCcEmails = <<>>
    /\ ccRecipients = <<>>
    /\ Cc = <<>>
    /\ BudgetView_id = NotMounted
    /\ inflight = {}
    /\ appliedBudget = NoBudget
    /\ handlersBegun = 0
    /\ lastCall = NoCall
    /\ pageQuery = NoQuery
    /\ pageResult = NoPage
    /\ visited = <<>>
    /\ pagesRead = 0

NextCc ==
    \/ loadInvoices(TRUE, TRUE)
    \/ \E invoice \in Invoices_invoices, companyEmail \in CompanyEmails :
        handleSendEmail(invoice, companyEmail, TRUE)
    \/ addCc
    \/ \E i \in 1..maxCcRecipients, email \in CcInputs : changeCc(i, email)
    \/ \E i \in 1..maxCcRecipients : removeCc(i)
    \/ closeModal
    \/ \E pdfOk \in BOOLEAN :
        handleSend(pdfOk, TRUE, TRUE, TRUE, TRUE, TRUE)

SpecCc == InitCc /\ [][NextCc]_vars

\* equal ignoring case; two entries of a list at different places
EqualIgnoringCase(a, b) == toLowerCase(a) = toLowerCase(b)
CcListOk(list) ==
    /\ Len(list) <= 3
    /\ \A i, j \in DOMAIN list : i # j => ~EqualIgnoringCase(list[i], list[j])

C27_SendKeepsStatus ==
    [][(lastOp'.op = "sendInvoiceEmail" /\ lastOp'.outcome = "ok")
        => \A inv \in invoices :
               inv.status # "draft"
                   => \E after \in invoices' :
                          after.id = inv.id /\ after.status = inv.status]_vars

(***************************************************************************)
(* Specification of the invoice dates in the editor: mounts, changes of    *)
(* the invoice date and saves                                              *)
(***************************************************************************)
InitDue == InitEditor

NextDue ==
    \/ \E id \in IdsOf(invoices) \cup {Null}, elapsed \in 0..1 :
        InvoiceEditor_loadData(id, TRUE, elapsed)
    \/ \E clientId \in ClientIds : handleClientChange(clientId)
    \/ \E dateCreated \in DateInputs : handleDateCreatedChange(dateCreated)
    \/ addLineItem
    \/ \E writeOk \in BOOLEAN : Editor_handleSave(TRUE, TRUE, TRUE, writeOk)
    \/ InvoiceEditor_cancel

SpecDue == InitDue /\ [][NextDue]_vars

\* C21: every stored invoice (each was saved through the editor) has a
\* dateDue of exactly 30 days after its dateCreated, whether its date was
\* never edited or was changed any number of times.
C21_DueThirtyDays ==
    \A inv \in invoices :
        inv.dateDue.after = inv.dateCreated /\ inv.dateDue.extra = 0

\* C26: in the editor of an existing invoice that was loaded and whose
\* stored status is not paid, whichever of the four statuses is selected, the invoice can be
\* saved and the stored invoice then has the selected status (a client and
\* a line item being there, and the write reaching the backend).
C26_AnyStatusCanBeSaved ==
    \A inv \in invoices :
        (/\ Mounted
         /\ InvoiceEditor_id = inv.id
         /\ InvoiceEditor_invoice.id = inv.id
         /\ inv.status # "paid"
         /\ InvoiceEditor_invoice.clientId # Null
         /\ Len(InvoiceEditor_invoice.lineItems) # 0)
        => ENABLED (/\ Editor_handleSave(TRUE, TRUE, TRUE, TRUE)
                    /\ \E after \in invoices' :
                           /\ after.id = inv.id
                           /\ after.status = InvoiceEditor_invoice.status)

(***************************************************************************)
(* Budgets page and budget view: opening a budget and leaving it           *)
(***************************************************************************)
\* a row of the list: navigate to /budgets/<budget.id>
openBudget(id) ==
    /\ BudgetView_id = NotMounted
    /\ id \in IdsOf(budgetsState)
    /\ BudgetView_id' = id
    /\ BudgetView_budget' = NoBudget
    /\ BudgetView_totals' = NoTotals
    /\ inflight' = {}
    /\ appliedBudget' = NoBudget
    /\ UNCHANGED <<handlersBegun, budgetViewFrame>>

\* Back to Budgets, once no handler is waiting
BudgetView_back ==
    /\ BudgetView_id # NotMounted
    /\ inflight = {}
    /\ BudgetView_id' = NotMounted
    /\ BudgetView_budget' = NoBudget
    /\ BudgetView_totals' = NoTotals
    /\ UNCHANGED <<inflight, appliedBudget, handlersBegun, budgetViewFrame>>

(***************************************************************************)
(* Specification of the creation of a budget and of the view it leads to   *)
(***************************************************************************)
InitCreate ==
    /\ now = StartInstant
    /\ counterDoc = NoDoc
    /\ pc = [p \in Procs |-> "idle"]
    /\ currentYear = [p \in Procs |-> 0]
    /\ txSnap = [p \in Procs |-> NoDoc]
    /\ txStale = [p \in Procs |-> FALSE]
    /\ allocs = <<>>
    /\ invoiceCounter = NoDoc
    /\ started = 0
    /\ pristine = TRUE
    /\ lastWrite = NoWrite
    /\ clients = {}
    /\ invoices = {}
    /\ budgets = {}
    /\ limitsDoc \in LimitsDocs
    /\ budgetsState = {}
    /\ budgetLimit = 1
    /\ invoicesThisMonth = 0
    /\ invoiceLimit = 2
    /\ lastOp = NoOp
    /\ recurringExpenses = {}
    /\ expenses = <<>>
    /\ newlyCreatedId = Null
    /\ insertion = <<>>
    /\ currentUser = "A"
    /\ db = {}
    /\ access = {}
    /\ result = NoResult
    /\ editingClient = NoClient
    /\ Clients_newlyCreatedId = Null
    /\ BudgetView_budget = NoBudget
    /\ BudgetView_totals = NoTotals
    /\ InvoiceEditor_id = NotMounted
    /\ InvoiceEditor_invoice = NoInvoice
    /\ request = NoRequest
    /\ Invoices_invoices = {}
    /\ emailModalData = NoModal
    /\ additionalCcEntries = <<>>
    /\ invoiceCcEmails = <<>>
    /\ ccRecipients = <<>>
    /\ Cc = <<>>
    /\ BudgetView_id = NotMounted
    /\ inflight = {}
    /\ appliedBudget = NoBudget
    /\ handlersBegun = 0
    /\ lastCall = NoCall
    /\ pageQuery = NoQuery
    /\ pageResult = NoPage
    /\ visited = <<>>
    /\ pagesRead = 0

NextCreate ==
    \/ Tick
    \/ \E budgetsOk, limitsOk \in BOOLEAN : loadBudgets(budgetsOk, limitsOk)
    \/ \E templatesOk, writeOk \in BOOLEAN :
        handleCreateBudget(templatesOk, writeOk)
    \/ \E id \in BudgetIds : openBudget(id)
    \/ \E readOk \in BOOLEAN : loadBudget(readOk)
    \/ BudgetView_back
    \/ \E id \in BudgetIds : deleteBudget(id)

SpecCreate == InitCreate /\ [][NextCreate]_vars

\* C28: when handleCreateBudget has completed successfully, the budget it
\* created is stored under the id of the route the page navigated to, so
\* that getBudget of that id returns it and the view opens it.
C28_CreatedBudgetOpens ==
    [][(lastOp'.op = "createBudget" /\ lastOp'.outcome = "ok")
        => \E b \in budgets' \ budgets : b.id = BudgetView_id']_vars

(***************************************************************************)
(* Budget view: the handlers of the line items.  A handler builds          *)
(* updatedBudget from the budget of the render it was called in, awaits    *)
(* updateBudget and then calls setBudget; nothing keeps a second handler   *)
(* from starting while the first one waits.                                *)
(***************************************************************************)
MaxInflight == 2
MaxHandlers == 4
ItemIds == 1..(2 * MaxItems + MaxInflight + 1)
ItemUpdates == {[isMarked |-> TRUE], [amount |-> 1]}
StartingAmountValues == {"7", "abc"}

\* what was asked of a handler
Asked(kind, itemId, updates, dragIndex, dropIndex, amount) ==
    [kind |-> kind, itemId |-> itemId, updates |-> updates,
     dragIndex |-> dragIndex, dropIndex |-> dropIndex, amount |-> amount]

\* crypto.randomUUID(): an id no line item of the view has
newItemId ==
    LET used == {BudgetView_budget.lineItems[i].id :
                     i \in DOMAIN BudgetView_budget.lineItems}
                \cup {e.op.itemId : e \in inflight}
                \cup {appliedBudget.lineItems[i].id :
                          i \in DOMAIN appliedBudget.lineItems}
    IN  NewId(ItemIds, used)

\* const updatedBudget = { ...budget, ... } of the five handlers
updatedBudget(op, budget_) ==
    CASE op.kind = "handleAddAdHoc" ->
            [budget_ EXCEPT !.lineItems =
                Append(@, [id |-> op.itemId, status |-> "incomplete",
                           amount |-> 0, isMarked |-> FALSE])]
      [] op.kind = "handleDeleteItem" ->
            [budget_ EXCEPT !.lineItems =
                SelectSeq(@, LAMBDA item : item.id # op.itemId)]
      [] op.kind = "handleUpdateItem" ->
            [budget_ EXCEPT !.lineItems =
                [i \in DOMAIN @ |->
                    IF @[i].id = op.itemId THEN Spread(@[i], op.updates)
                    ELSE @[i]]]
      [] op.kind = "handleReorderItems" ->
            [budget_ EXCEPT !.lineItems =
                IF op.dragIndex \in DOMAIN @ /\ op.dropIndex \in DOMAIN @
                THEN splice(@, op.dragIndex, op.dropIndex)
                ELSE @]
      [] op.kind = "handleUpdateStartingAmount" ->
            [budget_ EXCEPT !.startingAmount = op.amount]

\* if (!budget) return; nothing else keeps a handler from starting
canStart == BudgetView_budget.loaded

\* the handler up to its await
begin(op) ==
    /\ canStart
    /\ Cardinality(inflight) < MaxInflight
    /\ handlersBegun < MaxHandlers
    /\ handlersBegun' = handlersBegun + 1
    /\ inflight' = inflight \cup
           {[op |-> op, updatedBudget |-> updatedBudget(op, BudgetView_budget)]}
    /\ UNCHANGED <<BudgetView_budget, BudgetView_totals, BudgetView_id,
                   appliedBudget, budgetViewFrame>>

handleAddAdHoc ==
    /\ Len(BudgetView_budget.lineItems) < MaxItems
    /\ Len(appliedBudget.lineItems) < MaxItems
    /\ begin(Asked("handleAddAdHoc", newItemId, <<>>, 0, 0, 0))
handleDeleteItem(itemId) ==
    /\ \E i \in DOMAIN BudgetView_budget.lineItems :
           BudgetView_budget.lineItems[i].id = itemId
    /\ begin(Asked("handleDeleteItem", itemId, <<>>, 0, 0, 0))
handleUpdateItem(itemId, updates) ==
    /\ \E i \in DOMAIN BudgetView_budget.lineItems :
           BudgetView_budget.lineItems[i].id = itemId
    /\ begin(Asked("handleUpdateItem", itemId, updates, 0, 0, 0))
handleReorderItems(dragIndex, dropIndex) ==
    /\ dragIndex \in DOMAIN BudgetView_budget.lineItems
    /\ dropIndex \in DOMAIN BudgetView_budget.lineItems
    /\ dragIndex # dropIndex
    /\ begin(Asked("handleReorderItems", Null, <<>>, dragIndex, dropIndex, 0))
handleUpdateStartingAmount(startingAmountValue) ==
    LET amount == parseFloat(startingAmountValue)
    IN  /\ ~isNaN(amount)
        /\ begin(Asked("handleUpdateStartingAmount", Null, <<>>, 0, 0,
                       amount.value))

\* storage.ts updateBudget: updateDoc replaces the fields of the stored
\* document of that id, which has to exist
updateBudget(id, budget_) ==
    {IF b.id = id
     THEN [b EXCEPT !.startingAmount = budget_.startingAmount,
                    !.lineItems = budget_.lineItems]
     ELSE b : b \in budgets}

\* updateBudget settles and the handler goes on: setBudget(updatedBudget),
\* or the error leaves the handler
afterUpdateBudget(entry, writeOk) ==
    LET ok == writeOk /\ BudgetView_id \in IdsOf(budgets)
    IN  /\ entry \in inflight
        /\ inflight' = inflight \ {entry}
        /\ budgets' = IF ok THEN updateBudget(BudgetView_id, entry.updatedBudget)
                      ELSE budgets
        /\ BudgetView_budget' = IF ok THEN entry.updatedBudget
                                ELSE BudgetView_budget
        /\ BudgetView_totals' = calculateTotals(BudgetView_budget')
        /\ appliedBudget' = IF ok THEN updatedBudget(entry.op, appliedBudget)
                            ELSE appliedBudget
        /\ lastOp' = Op("updateBudget", IF ok THEN "ok" ELSE "error", writeOk)
        /\ UNCHANGED <<BudgetView_id, handlersBegun, now, counterDoc,
                       allocVars, settingsVars, othersOfBudgetView, pristine, lastWrite, clients,
                       invoices, limitsDoc, pageVars>>

(***************************************************************************)
(* Specification of the budget view over one stored budget                 *)
(***************************************************************************)
StoredBudget ==
    [id |-> 1, dateCreated |-> StartInstant, startingAmount |-> 0,
     lineItems |-> <<[id |-> 1, status |-> "incomplete", amount |-> 4,
                      isMarked |-> FALSE]>>]

InitBudgetView ==
    /\ now = StartInstant
    /\ counterDoc = NoDoc
    /\ pc = [p \in Procs |-> "idle"]
    /\ currentYear = [p \in Procs |-> 0]
    /\ txSnap = [p \in Procs |-> NoDoc]
    /\ txStale = [p \in Procs |-> FALSE]
    /\ allocs = <<>>
    /\ invoiceCounter = NoDoc
    /\ started = 0
    /\ pristine = TRUE
    /\ lastWrite = NoWrite
    /\ clients = EditorClients
    /\ invoices = {}
    /\ budgets = {StoredBudget}
    /\ limitsDoc = NoLimits
    /\ budgetsState = {}
    /\ budgetLimit = 1
    /\ invoicesThisMonth = 0
    /\ invoiceLimit = 2
    /\ lastOp = NoOp
    /\ recurringExpenses = {}
    /\ expenses = <<>>
    /\ newlyCreatedId = Null
    /\ insertion = <<>>
    /\ currentUser = "A"
    /\ db = {}
    /\ access = {}
    /\ result = NoResult
    /\ editingClient = NoClient
    /\ Clients_newlyCreatedId = Null
    /\ BudgetView_budget = NoBudget
    /\ BudgetView_totals = NoTotals
    /\ InvoiceEditor_id = NotMounted
    /\ InvoiceEditor_invoice = NoInvoice
    /\ request = NoRequest
    /\ Invoices_invoices = {}
    /\ emailModalData = NoModal
    /\ additionalCcEntries = <<>>
    /\ invoiceCcEmails = <<>>
    /\ ccRecipients = <<>>
    /\ Cc = <<>>
    /\ BudgetView_id = 1
    /\ inflight = {}
    /\ appliedBudget = NoBudget
    /\ handlersBegun = 0
    /\ lastCall = NoCall
    /\ pageQuery = NoQuery
    /\ pageResult = NoPage
    /\ visited = <<>>
    /\ pagesRead = 0


NextBudgetView ==
    \/ \E readOk \in BOOLEAN : loadBudget(readOk)
    \/ handleAddAdHoc
    \/ \E itemId \in ItemIds : handleDeleteItem(itemId)
    \/ \E itemId \in ItemIds, updates \in ItemUpdates :
        handleUpdateItem(itemId, updates)
    \/ \E dragIndex, dropIndex \in 1..MaxItems :
        handleReorderItems(dragIndex, dropIndex)
    \/ \E startingAmountValue \in StartingAmountValues :
        handleUpdateStartingAmount(startingAmountValue)
    \/ \E entry \in inflight, writeOk \in BOOLEAN :
        afterUpdateBudget(entry, writeOk)

SpecBudgetView == InitBudgetView /\ [][NextBudgetView]_vars

\* C29: in the budget view, once every line-item operation that was started
\* has completed, the stored budget is the loaded budget with every
\* completed operation applied, in the order of their completion: no
\* completed operation was overwritten by one that started before it
\* finished.
C29_CompletedOperationsStored ==
    (BudgetView_budget.loaded /\ inflight = {}
        /\ BudgetView_id \in IdsOf(budgets))
    => LET stored == getBudget(BudgetView_id, TRUE)
       IN  /\ stored.startingAmount = appliedBudget.startingAmount
           /\ stored.lineItems = appliedBudget.lineItems

(***************************************************************************)
(* The write functions of storage.ts and billingStorage.ts called one      *)
(* after the other by one client, each with an argument and a flag saying  *)
(* whether the write reaches the backend.  lastCall records the function   *)
(* and its argument, lastOp its outcome.                                   *)
(***************************************************************************)
WriteAmounts == {0, 7}
WriteNames == {"Acme", "Bolt"}
WriteStatuses == {"draft", "sent"}

BudgetArgs ==
    {[id |-> 0, dateCreated |-> StartInstant, startingAmount |-> a,
      lineItems |-> <<>>] : a \in WriteAmounts}
ClientArgs == {[NoClient EXCEPT !.id = 1, !.name = n] : n \in WriteNames}
InvoiceArgs == {[StoredDraft EXCEPT !.status = st] : st \in WriteStatuses}
TemplateArgs ==
    {[id |-> 1, name |-> "Old", amount |-> a, isAutomatic |-> FALSE,
      order |-> Null, link |-> Undefined, note |-> Undefined]
        : a \in WriteAmounts}

stores == <<clients, invoices, budgets, recurringExpenses>>
writesFrame == <<now, counterDoc, allocVars, settingsVars, pristine, lastWrite,
                 limitsDoc, pageVars, expenses, newlyCreatedId, insertion,
                 authVars, clientPageVars, budgetViewVars, editorVars,
                 adminVars, mailVars, pagingVars>>

called(op, arg, outcome) ==
    /\ lastCall' = [op |-> op, arg |-> arg]
    /\ lastOp' = Op(op, outcome, outcome # "error")

outcomeOf(writeOk) == IF writeOk THEN "ok" ELSE "error"

\* updateDoc rejects when the document does not exist
updateOutcome(collection, id, writeOk) ==
    outcomeOf(writeOk /\ id \in IdsOf(collection))

\* storage.ts createBudget: addDoc stores the data under a new document id
write_createBudget(budget, writeOk) ==
    /\ Cardinality(budgets) < MaxBudgets
    /\ createBudget(budget, NewId(BudgetIds, IdsOf(budgets)), writeOk)
    /\ lastCall' = [op |-> "createBudget", arg |-> budget]
    /\ UNCHANGED <<clients, invoices, recurringExpenses, writesFrame>>

write_updateBudget(id, budget, writeOk) ==
    LET outcome == updateOutcome(budgets, id, writeOk)
    IN  /\ budgets' = IF outcome = "ok" THEN updateBudget(id, budget)
                      ELSE budgets
        /\ called("updateBudget", [budget EXCEPT !.id = id], outcome)
        /\ UNCHANGED <<clients, invoices, recurringExpenses, writesFrame>>

write_deleteBudget(id, writeOk) ==
    /\ budgets' = IF writeOk THEN {b \in budgets : b.id # id} ELSE budgets
    /\ called("deleteBudget", id, outcomeOf(writeOk))
    /\ UNCHANGED <<clients, invoices, recurringExpenses, writesFrame>>

write_createClient(client, countOk, limitsOk, writeOk) ==
    LET outcome == createOutcome(getClientsCount(countOk),
                                 getCurrentUserLimits.clients, limitsOk,
                                 writeOk)
    IN  /\ clients' = IF outcome = "ok"
                      THEN {c \in clients : c.id # client.id} \cup {client}
                      ELSE clients
        /\ called("createClient", client, outcome)
        /\ UNCHANGED <<invoices, budgets, recurringExpenses, writesFrame>>

write_updateClient(client, writeOk) ==
    LET outcome == updateOutcome(clients, client.id, writeOk)
    IN  /\ clients' = updateClient(client, writeOk)
        /\ called("updateClient", client, outcome)
        /\ UNCHANGED <<invoices, budgets, recurringExpenses, writesFrame>>

write_deleteClient(id, writeOk) ==
    /\ clients' = IF writeOk THEN {c \in clients : c.id # id} ELSE clients
    /\ called("deleteClient", id, outcomeOf(writeOk))
    /\ UNCHANGED <<invoices, budgets, recurringExpenses, writesFrame>>

write_createInvoice(invoice, readOk, limitsOk, writeOk) ==
    LET outcome ==
            createOutcome(
                countItemsCreatedThisMonth(getInvoices(readOk), now),
                getCurrentUserLimits.invoicesPerMonth, limitsOk, writeOk)
    IN  /\ invoices' = IF outcome = "ok" THEN setInvoice(invoice)
                       ELSE invoices
        /\ called("createInvoice", invoice, outcome)
        /\ UNCHANGED <<clients, budgets, recurringExpenses, writesFrame>>

write_updateInvoice(invoice, writeOk) ==
    LET outcome == updateOutcome(invoices, invoice.id, writeOk)
    IN  /\ invoices' = IF outcome = "ok" THEN updateInvoice(invoice)
                       ELSE invoices
        /\ called("updateInvoice", invoice, outcome)
        /\ UNCHANGED <<clients, budgets, recurringExpenses, writesFrame>>

write_deleteInvoice(id, writeOk) ==
    /\ invoices' = IF writeOk THEN {inv \in invoices : inv.id # id}
                   ELSE invoices
    /\ called("deleteInvoice", id, outcomeOf(writeOk))
    /\ UNCHANGED <<clients, budgets, recurringExpenses, writesFrame>>

write_createRecurringExpense(expense, writeOk) ==
    /\ recurringExpenses' = IF writeOk THEN createRecurringExpense(expense)
                            ELSE recurringExpenses
    /\ called("createRecurringExpense", expense, outcomeOf(writeOk))
    /\ UNCHANGED <<clients, invoices, budgets, writesFrame>>

write_updateRecurringExpense(expense, writeOk) ==
    LET outcome == updateOutcome(recurringExpenses, expense.id, writeOk)
    IN  /\ recurringExpenses' =
               IF outcome = "ok" THEN updateIn(recurringExpenses, expense)
               ELSE recurringExpenses
        /\ called("updateRecurringExpense", expense, outcome)
        /\ UNCHANGED <<clients, invoices, budgets, writesFrame>>

write_deleteRecurringExpense(id, writeOk) ==
    /\ recurringExpenses' = IF writeOk THEN deleteRecurringExpense(id)
                            ELSE recurringExpenses
    /\ called("deleteRecurringExpense", id, outcomeOf(writeOk))
    /\ UNCHANGED <<clients, invoices, budgets, writesFrame>>

InitWrites ==
    /\ now = StartInstant
    /\ counterDoc = NoDoc
    /\ pc = [p \in Procs |-> "idle"]
    /\ currentYear = [p \in Procs |-> 0]
    /\ txSnap = [p \in Procs |-> NoDoc]
    /\ txStale = [p \in Procs |-> FALSE]
    /\ allocs = <<>>
    /\ invoiceCounter = NoDoc
    /\ started = 0
    /\ pristine = TRUE
    /\ lastWrite = NoWrite
    /\ clients = {}
    /\ invoices = {}
    /\ budgets = {}
    /\ limitsDoc \in LimitsDocs
    /\ budgetsState = {}
    /\ budgetLimit = 1
    /\ invoicesThisMonth = 0
    /\ invoiceLimit = 2
    /\ lastOp = NoOp
    /\ recurringExpenses = {}
    /\ expenses = <<>>
    /\ newlyCreatedId = Null
    /\ insertion = <<>>
    /\ currentUser = "A"
    /\ db = {}
    /\ access = {}
    /\ result = NoResult
    /\ editingClient = NoClient
    /\ Clients_newlyCreatedId = Null
    /\ BudgetView_budget = NoBudget
    /\ BudgetView_totals = NoTotals
    /\ InvoiceEditor_id = NotMounted
    /\ InvoiceEditor_invoice = NoInvoice
    /\ request = NoRequest
    /\ Invoices_invoices = {}
    /\ emailModalData = NoModal
    /\ additionalCcEntries = <<>>
    /\ invoiceCcEmails = <<>>
    /\ ccRecipients = <<>>
    /\ Cc = <<>>
    /\ BudgetView_id = NotMounted
    /\ inflight = {}
    /\ appliedBudget = NoBudget
    /\ handlersBegun = 0
    /\ lastCall = NoCall
    /\ pageQuery = NoQuery
    /\ pageResult = NoPage
    /\ visited = <<>>
    /\ pagesRead = 0

NextWrites ==
    \/ \E budget \in BudgetArgs, writeOk \in BOOLEAN :
        write_createBudget(budget, writeOk)
    \/ \E id \in BudgetIds, budget \in BudgetArgs, writeOk \in BOOLEAN :
        write_updateBudget(id, budget, writeOk)
    \/ \E id \in BudgetIds, writeOk \in BOOLEAN :
        write_deleteBudget(id, writeOk)
    \/ \E client \in ClientArgs, countOk, limitsOk, writeOk \in BOOLEAN :
        write_createClient(client, countOk, limitsOk, writeOk)
    \/ \E client \in ClientArgs, writeOk \in BOOLEAN :
        write_updateClient(client, writeOk)
    \/ \E client \in ClientArgs, writeOk \in BOOLEAN :
        write_deleteClient(client.id, writeOk)
    \/ \E invoice \in InvoiceArgs, readOk, limitsOk, writeOk \in BOOLEAN :
        write_createInvoice(invoice, readOk, limitsOk, writeOk)
    \/ \E invoice \in InvoiceArgs, writeOk \in BOOLEAN :
        write_updateInvoice(invoice, writeOk)
    \/ \E invoice \in InvoiceArgs, writeOk \in BOOLEAN :
        write_deleteInvoice(invoice.id, writeOk)
    \/ \E expense \in TemplateArgs, writeOk \in BOOLEAN :
        write_createRecurringExpense(expense, writeOk)
    \/ \E expense \in TemplateArgs, writeOk \in BOOLEAN :
        write_updateRecurringExpense(expense, writeOk)
    \/ \E expense \in TemplateArgs, writeOk \in BOOLEAN :
        write_deleteRecurringExpense(expense.id, writeOk)

SpecWrites == InitWrites /\ [][NextWrites]_vars

sameCall == lastCall'.op = lastCall.op /\ lastCall'.arg = lastCall.arg

(***************************************************************************)
(* C24  Every create, update and delete of a budget, client, invoice or    *)
(* template is idempotent: when a call that succeeded is followed by the   *)
(* same call with the same argument, the second call leaves the store as   *)
(* the first one left it.                                                  *)
(***************************************************************************)
C24_WritesIdempotent ==
    [][(lastOp.outcome = "ok" /\ sameCall) => stores' = stores]_vars

(***************************************************************************)
(* Paged reads of the clients and the invoices: getClientsPage and         *)
(* getInvoicesPage as functions of the stored collection, and a caller     *)
(* that starts with a null cursor and passes each nextCursor to the next   *)
(* call while hasMore is true.  Nothing writes while the list is paged.    *)
(***************************************************************************)
ManyDocs == 64
FewDocs == 3
PageSizes == {1, 2, 10, 11}
StatusFilters == {"all", "draft", "paid", "archived"}
StatusPatterns == {"mixed", "sparse", "legacy"}

\* the status of the i-th stored invoice: the three statuses in turn, a paid
\* one every 32 invoices, or the casings of older documents
statusAt(pattern, i) ==
    CASE pattern = "mixed" -> <<"draft", "sent", "paid">>[(i % 3) + 1]
      [] pattern = "sparse" -> IF i % 32 = 1 THEN "paid" ELSE "draft"
      [] OTHER -> <<"Paid", "PAID", "paid", "void">>[(i % 4) + 1]

\* two invoices of one dateCreated each, so that the order has ties
InvoiceCollections ==
    {{[NoInvoice EXCEPT !.id = i, !.dateCreated = StartInstant + (i \div 2),
                        !.status = statusAt(pattern, i)] : i \in 1..n}
        : n \in {0, FewDocs, ManyDocs \div 2 - 1, ManyDocs},
          pattern \in StatusPatterns}

ClientCollections ==
    {{[NoClient EXCEPT !.id = i, !.name = <<"", "Acme", "Bolt">>[(i % 3) + 1]]
         : i \in 1..n} : n \in {0, FewDocs, FewDocs + 2}}

PageQueries ==
    {[collection |-> "clients", pageSize |-> pageSize, status |-> "all"]
        : pageSize \in PageSizes}
    \cup {[collection |-> "invoices", pageSize |-> pageSize,
           status |-> status]
             : pageSize \in PageSizes, status \in StatusFilters}

normalizeInvoiceStatus(status) ==
    LET normalized == toLowerCase(status)
    IN  IF normalized \in {"draft", "sent", "paid", "archived"}
        THEN normalized ELSE "null"

\* the order of the client names
nameRank(name) ==
    CASE name = "" -> 0
      [] name = "Acme" -> 1
      [] OTHER -> 2

\* orderBy('name', 'asc') of the clients, orderBy('dateCreated', 'desc') of
\* the invoices; documents of one key follow each other by document id in
\* the direction of the order
orderedBefore(collection, a, b) ==
    IF collection = "clients"
    THEN \/ nameRank(a.name) < nameRank(b.name)
         \/ nameRank(a.name) = nameRank(b.name) /\ a.id < b.id
    ELSE \/ a.dateCreated > b.dateCreated
         \/ a.dateCreated = b.dateCreated /\ a.id > b.id

documents(collection) == IF collection = "clients" THEN clients ELSE invoices

RECURSIVE listOf(_)
listOf(S) ==
    IF S = {} THEN <<>>
    ELSE LET d == CHOOSE x \in S : TRUE
         IN  <<d>> \o listOf(S \ {d})

orderBy(collection) ==
    SortSeq(listOf(documents(collection)),
            LAMBDA a, b : orderedBefore(collection, a, b))

startAfter(snapshotDocs, collection, cursor) ==
    LET isAfter(d) == orderedBefore(collection, cursor, d)
    IN  IF cursor = NoCursor THEN snapshotDocs
        ELSE SelectSeq(snapshotDocs, isAfter)

\* getDocs(query(ref, orderBy(...), startAfter(cursor), limit(n)))
getDocs(collection, cursor, n) ==
    slice(startAfter(orderBy(collection), collection, cursor), n)

idsOf(docs_) == [i \in 1..Len(docs_) |-> docs_[i].id]

\* hasMore, pageDocs and nextCursor of what was fetched or matched
pageOf(fetched, pageSize, reads) ==
    LET hasMore == Len(fetched) > pageSize
        pageDocs == IF hasMore THEN slice(fetched, pageSize) ELSE fetched
    IN  [items |-> idsOf(pageDocs),
         hasMore |-> hasMore,
         nextCursor |-> IF Len(pageDocs) > 0 THEN pageDocs[Len(pageDocs)]
                        ELSE NoCursor,
         reads |-> reads]

\* the catch branch of both functions
failedPage == [items |-> <<>>, hasMore |-> FALSE, nextCursor |-> NoCursor,
               reads |-> 0]

getClientsPage(pageSize, cursor, readOk) ==
    IF ~readOk THEN failedPage
    ELSE pageOf(getDocs("clients", cursor, pageSize + 1), pageSize, 1)

\* Math.max(pageSize * 3, 30)
fetchBatchSize(pageSize) == IF pageSize * 3 > 30 THEN pageSize * 3 ELSE 30

\* variant: the scan stops at a full page, without the one match more
targetMatches_FullPage(pageSize) == pageSize

targetMatches(pageSize) == pageSize + 1

\* the loop of the filtered read: one turn per call, from the loop's test
RECURSIVE scan(_, _, _, _, _, _)
scan(pageSize, status, matchedDocs, scanCursor, exhausted, reads) ==
    IF ~(Len(matchedDocs) < targetMatches(pageSize) /\ ~exhausted)
    THEN [matchedDocs |-> matchedDocs, reads |-> reads]
    ELSE LET snapshot == getDocs("invoices", scanCursor,
                                 fetchBatchSize(pageSize))
             isMatch(d) == normalizeInvoiceStatus(d.status) = status
             pushed == slice(SelectSeq(snapshot, isMatch),
                             targetMatches(pageSize) - Len(matchedDocs))
         IN  IF Len(snapshot) = 0
             THEN [matchedDocs |-> matchedDocs, reads |-> reads + 1]
             ELSE scan(pageSize, status, matchedDocs \o pushed,
                       snapshot[Len(snapshot)],
                       Len(snapshot) < fetchBatchSize(pageSize), reads + 1)

getInvoicesPage(pageSize, cursor, status, readOk) ==
    IF ~readOk THEN failedPage
    ELSE IF status = "all"
    THEN pageOf(getDocs("invoices", cursor, pageSize + 1), pageSize, 1)
    ELSE LET scanned == scan(pageSize, status, <<>>, cursor, FALSE, 0)
         IN  pageOf(scanned.matchedDocs, pageSize, scanned.reads)

pagingFrame == <<now, counterDoc, allocVars, settingsVars, pristine, lastWrite,
                 storeVars, pageVars, templateVars, authVars,
                 clientPageVars, budgetViewVars, editorVars, adminVars,
                 mailVars, writeVars, pageQuery>>

\* the caller goes on while the last page said there is more
canReadPage(collection) ==
    /\ pageQuery.collection = collection
    /\ pagesRead = 0 \/ pageResult.hasMore
    /\ pagesRead <= Cardinality(documents(collection))

readPage(op, returned, readOk) ==
    /\ pageResult' = returned
    /\ lastOp' = Op(op, IF readOk THEN "ok" ELSE "error", readOk)
    /\ visited' = visited \o returned.items
    /\ pagesRead' = pagesRead + 1
    /\ UNCHANGED pagingFrame

readClientsPage(readOk) ==
    /\ canReadPage("clients")
    /\ readPage("getClientsPage",
                getClientsPage(pageQuery.pageSize, pageResult.nextCursor,
                               readOk), readOk)

readInvoicesPage(readOk) ==
    /\ canReadPage("invoices")
    /\ readPage("getInvoicesPage",
                getInvoicesPage(pageQuery.pageSize, pageResult.nextCursor,
                                pageQuery.status, readOk), readOk)

InitPaging ==
    /\ pageQuery \in PageQueries
    /\ now = StartInstant
    /\ counterDoc = NoDoc
    /\ pc = [p \in Procs |-> "idle"]
    /\ currentYear = [p \in Procs |-> 0]
    /\ txSnap = [p \in Procs |-> NoDoc]
    /\ txStale = [p \in Procs |-> FALSE]
    /\ allocs = <<>>
    /\ invoiceCounter = NoDoc
    /\ started = 0
    /\ pristine = TRUE
    /\ lastWrite = NoWrite
    /\ clients \in IF pageQuery.collection = "clients"
                   THEN ClientCollections ELSE {{}}
    /\ invoices \in IF pageQuery.collection = "invoices"
                    THEN InvoiceCollections ELSE {{}}
    /\ budgets = {}
    /\ limitsDoc = NoLimits
    /\ budgetsState = {}
    /\ budgetLimit = 1
    /\ invoicesThisMonth = 0
    /\ invoiceLimit = 2
    /\ lastOp = NoOp
    /\ recurringExpenses = {}
    /\ expenses = <<>>
    /\ newlyCreatedId = Null
    /\ insertion = <<>>
    /\ currentUser = "A"
    /\ db = {}
    /\ access = {}
    /\ result = NoResult
    /\ editingClient = NoClient
    /\ Clients_newlyCreatedId = Null
    /\ BudgetView_budget = NoBudget
    /\ BudgetView_totals = NoTotals
    /\ InvoiceEditor_id = NotMounted
    /\ InvoiceEditor_invoice = NoInvoice
    /\ request = NoRequest
    /\ Invoices_invoices = {}
    /\ emailModalData = NoModal
    /\ additionalCcEntries = <<>>
    /\ invoiceCcEmails = <<>>
    /\ ccRecipients = <<>>
    /\ Cc = <<>>
    /\ BudgetView_id = NotMounted
    /\ inflight = {}
    /\ appliedBudget = NoBudget
    /\ handlersBegun = 0
    /\ lastCall = NoCall
    /\ pageResult = NoPage
    /\ visited = <<>>
    /\ pagesRead = 0

NextPaging ==
    \/ \E readOk \in BOOLEAN : readClientsPage(readOk)
    \/ \E readOk \in BOOLEAN : readInvoicesPage(readOk)

SpecPaging == InitPaging /\ [][NextPaging]_vars

\* the stored documents the list is about, and the one of an id
matchingDocs ==
    {d \in documents(pageQuery.collection) :
        \/ pageQuery.status = "all"
        \/ normalizeInvoiceStatus(d.status) = pageQuery.status}
docOf(id) == CHOOSE d \in documents(pageQuery.collection) : d.id = id
unvisited == {d \in matchingDocs : \A i \in 1..Len(visited) : visited[i] # d.id}

====
